---- MODULE Spec2Model ----
(***************************************************************************)
(* A model of k8s-image-updater: the image reference parser, the tag       *)
(* orderings, the per-container update policy evaluator and the            *)
(* reconciliation loop of pkg/updater and pkg/registry.                    *)
(*                                                                         *)
(* Strings are sequences of one-character strings, so that prefix          *)
(* stripping, splitting and the byte-wise comparison of Go strings are     *)
(* computed and not assumed.                                               *)
(***************************************************************************)
EXTENDS Integers, Sequences, FiniteSets, TLC

(***************************************************************************)
(* Strings                                                                 *)
(***************************************************************************)

\* The characters the model uses, in ASCII order.
Alphabet ==
  <<"$", "+", "-", ".", "/", "0", "1", "2", "3", "4", "5", "6", "7", "8", "9",
    ":", "@", "[", "]", "^", "_", "a", "b", "c", "d", "e", "f", "g", "h", "i", "j", "k", "l",
    "m", "n", "o", "p", "q", "r", "s", "t", "u", "v", "w", "x", "y", "z", "~">>

\* The rank of a character in ASCII order (Go compares strings byte-wise).
Ord(c) == CHOOSE i \in 1..Len(Alphabet) : Alphabet[i] = c

Digits == {"0", "1", "2", "3", "4", "5", "6", "7", "8", "9"}

Letters ==
  {"a", "b", "c", "d", "e", "f", "g", "h", "i", "j", "k", "l", "m", "n", "o",
   "p", "q", "r", "s", "t", "u", "v", "w", "x", "y", "z"}

\* Go's a < b on strings: byte-wise lexicographic, a proper prefix is smaller.
RECURSIVE StrLess(_, _)
StrLess(a, b) ==
  IF b = <<>> THEN FALSE
  ELSE IF a = <<>> THEN TRUE
  ELSE IF Head(a) = Head(b) THEN StrLess(Tail(a), Tail(b))
  ELSE Ord(Head(a)) < Ord(Head(b))

\* strings.HasPrefix
HasPrefix(s, p) == Len(s) >= Len(p) /\ SubSeq(s, 1, Len(p)) = p

\* strings.TrimPrefix
TrimPrefix(s, p) == IF HasPrefix(s, p) THEN SubSeq(s, Len(p) + 1, Len(s)) ELSE s

\* strings.Contains for a one-character needle
Contains(s, c) == \E i \in 1..Len(s) : s[i] = c

\* The index of the first c in s, 0 when there is none.
IndexOf(s, c) ==
  IF Contains(s, c) THEN CHOOSE i \in 1..Len(s) : s[i] = c /\ \A j \in 1..(i - 1) : s[j] # c
  ELSE 0

\* strings.Split(s, c) for a one-character separator
RECURSIVE Split(_, _)
Split(s, c) ==
  LET i == IndexOf(s, c)
  IN  IF i = 0 THEN <<s>>
      ELSE <<SubSeq(s, 1, i - 1)>> \o Split(SubSeq(s, i + 1, Len(s)), c)

\* strings.Join(parts, c)
RECURSIVE Join(_, _)
Join(parts, c) ==
  IF parts = <<>> THEN <<>>
  ELSE IF Len(parts) = 1 THEN parts[1]
  ELSE parts[1] \o <<c>> \o Join(Tail(parts), c)

\* strconv.ParseInt succeeds on a non-empty run of digits (no sign occurs here).
IsNumeric(s) == s # <<>> /\ \A i \in 1..Len(s) : s[i] \in Digits

DigitVal(c) == Ord(c) - Ord("0")

RECURSIVE ParseInt(_)
ParseInt(s) ==
  IF s = <<>> THEN 0
  ELSE ParseInt(SubSeq(s, 1, Len(s) - 1)) * 10 + DigitVal(s[Len(s)])

(***************************************************************************)
(* hashicorp/go-version, as SortVersionTags uses it                        *)
(***************************************************************************)

\* [0-9A-Za-z\-~] of the version pattern (the model has no capitals)
IdChars == Digits \cup Letters \cup {"-", "~"}

\* X(\.X)* with X a non-empty run of identifier characters
ValidDotted(s) ==
  /\ s # <<>>
  /\ \A i \in 1..Len(s) : s[i] \in IdChars \cup {"."}
  /\ \A p \in {Split(s, ".")[i] : i \in 1..Len(Split(s, "."))} : p # <<>>

\* [0-9]+(\.[0-9]+)*
ValidNumber(s) ==
  /\ s # <<>>
  /\ \A i \in 1..Len(s) : s[i] \in Digits \cup {"."}
  /\ \A p \in {Split(s, ".")[i] : i \in 1..Len(Split(s, "."))} : p # <<>>

\* The length of the longest prefix of s made of digits and dots.
RECURSIVE NumPrefixLen(_)
NumPrefixLen(s) ==
  IF s # <<>> /\ Head(s) \in Digits \cup {"."} THEN 1 + NumPrefixLen(Tail(s)) ELSE 0

PadSegments(segs) ==
  IF Len(segs) >= 3 THEN segs ELSE segs \o [i \in 1..(3 - Len(segs)) |-> 0]

\* version.NewVersion: the match of
\*   ^v?(num)(-(pre1)|(-?(pre2)))?(\+(meta))?$
\* and the segments parsed as integers and padded to three.
NewVersion(s) ==
  LET s1     == TrimPrefix(s, <<"v">>)
      plusAt == IndexOf(s1, "+")
      body   == IF plusAt = 0 THEN s1 ELSE SubSeq(s1, 1, plusAt - 1)
      meta   == IF plusAt = 0 THEN <<>> ELSE SubSeq(s1, plusAt + 1, Len(s1))
      n      == NumPrefixLen(body)
      num    == SubSeq(body, 1, n)
      rest   == SubSeq(body, n + 1, Len(body))
      dashed == rest # <<>> /\ Head(rest) = "-" /\ ValidDotted(Tail(rest))
      bare   == rest # <<>> /\ Head(rest) \in Letters \cup {"-", "~"} /\ ValidDotted(rest)
      ok     == /\ ValidNumber(num)
                /\ (plusAt = 0 \/ ValidDotted(meta))
                /\ (rest = <<>> \/ dashed \/ bare)
      parts  == Split(num, ".")
  IN  IF ~ok THEN [ok |-> FALSE, segments |-> <<>>, pre |-> <<>>, metadata |-> <<>>]
      ELSE [ok       |-> TRUE,
            segments |-> PadSegments([i \in 1..Len(parts) |-> ParseInt(parts[i])]),
            pre      |-> IF rest = <<>> THEN <<>> ELSE IF dashed THEN Tail(rest) ELSE rest,
            metadata |-> meta]

\* comparePart of go-version: one dot-separated part of a prerelease
ComparePart(preSelf, preOther) ==
  IF preSelf = preOther THEN 0
  ELSE IF preSelf = <<>> THEN (IF IsNumeric(preOther) THEN -1 ELSE 1)
  ELSE IF preOther = <<>> THEN (IF IsNumeric(preSelf) THEN 1 ELSE -1)
  ELSE IF IsNumeric(preSelf) /\ ~IsNumeric(preOther) THEN -1
  ELSE IF ~IsNumeric(preSelf) /\ IsNumeric(preOther) THEN 1
  ELSE IF ~IsNumeric(preSelf) /\ ~IsNumeric(preOther) /\ StrLess(preOther, preSelf) THEN 1
  ELSE IF IsNumeric(preSelf) /\ IsNumeric(preOther) /\ ParseInt(preSelf) > ParseInt(preOther) THEN 1
  ELSE -1

RECURSIVE ComparePartsFrom(_, _, _)
ComparePartsFrom(a, b, i) ==
  IF i > Len(a) /\ i > Len(b) THEN 0
  ELSE LET c == ComparePart(IF i <= Len(a) THEN a[i] ELSE <<>>,
                            IF i <= Len(b) THEN b[i] ELSE <<>>)
       IN  IF c # 0 THEN c ELSE ComparePartsFrom(a, b, i + 1)

\* comparePrereleases of go-version
ComparePrereleases(v, other) ==
  IF v = other THEN 0 ELSE ComparePartsFrom(Split(v, "."), Split(other, "."), 1)

AllZero(segs, from) == \A i \in from..Len(segs) : segs[i] = 0

RECURSIVE CompareSegmentsFrom(_, _, _)
CompareSegmentsFrom(a, b, i) ==
  IF i > Len(a) /\ i > Len(b) THEN 0
  ELSE IF i > Len(a) THEN (IF AllZero(b, i) THEN 0 ELSE -1)
  ELSE IF i > Len(b) THEN (IF AllZero(a, i) THEN 0 ELSE 1)
  ELSE IF a[i] = b[i] THEN CompareSegmentsFrom(a, b, i + 1)
  ELSE IF a[i] < b[i] THEN -1
  ELSE 1

\* (*Version).Compare: equal renderings are equal; equal segments are decided
\* by the prerelease, a version without one being the greater; otherwise the
\* segments decide. Metadata plays no part.
VersionCompare(v, o) ==
  IF v.segments = o.segments /\ v.pre = o.pre /\ v.metadata = o.metadata THEN 0
  ELSE IF v.segments = o.segments THEN
    IF v.pre = <<>> /\ o.pre = <<>> THEN 0
    ELSE IF v.pre = <<>> THEN 1
    ELSE IF o.pre = <<>> THEN -1
    ELSE ComparePrereleases(v.pre, o.pre)
  ELSE CompareSegmentsFrom(v.segments, o.segments, 1)

(***************************************************************************)
(* pkg/registry: the tag orderings                                         *)
(***************************************************************************)

\* The tag's version, as the first loop of SortVersionTags parses it.
TagVersion(tag) == NewVersion(TrimPrefix(tag, <<"v">>))

\* VersionTagLess comparing the tag strings and not their versions.
VersionTagLess_Lexical(x, y) == StrLess(y, x)

\* VersionTagLess without the tie-break of equal versions.
VersionTagLess_NoTieBreak(x, y) ==
  VersionCompare(TagVersion(x), TagVersion(y)) > 0

\* The comparison function SortVersionTags hands to sort.Slice.
VersionTagLess(x, y) ==
  LET t1 == TrimPrefix(x, <<"v">>)
      t2 == TrimPrefix(y, <<"v">>)
      hasSuffix1 == Contains(t1, "-")
      hasSuffix2 == Contains(t2, "-")
      Less(c) ==
        IF c = 0
        THEN IF hasSuffix1 # hasSuffix2 THEN ~hasSuffix1 ELSE StrLess(t2, t1)
        ELSE c > 0
  IN  Less(VersionCompare(TagVersion(x), TagVersion(y)))

AlphabeticalTagLess(x, y) == StrLess(y, x)

\* The comparison function a sort is called with.
TagLess(order, x, y) ==
  IF order = "version" THEN VersionTagLess(x, y) ELSE AlphabeticalTagLess(x, y)

\* sort.Slice / sort.Sort on at most 6 elements: a plain insertion sort
\* (insertionSort of package sort).
RECURSIVE SinkFrom(_, _, _)
SinkFrom(s, j, order) ==
  IF j > 1 /\ TagLess(order, s[j], s[j - 1])
  THEN SinkFrom([s EXCEPT ![j] = s[j - 1], ![j - 1] = s[j]], j - 1, order)
  ELSE s

RECURSIVE InsertionSortFrom(_, _, _)
InsertionSortFrom(s, i, order) ==
  IF i > Len(s) THEN s ELSE InsertionSortFrom(SinkFrom(s, i, order), i + 1, order)

InsertionSort(s, order) == InsertionSortFrom(s, 2, order)

\* The tags that parse as a version, in input order.
RECURSIVE VersionsOf(_)
VersionsOf(tags) ==
  IF tags = <<>> THEN <<>>
  ELSE (IF TagVersion(Head(tags)).ok THEN <<Head(tags)>> ELSE <<>>) \o VersionsOf(Tail(tags))

SortVersionTags(tags) == InsertionSort(VersionsOf(tags), "version")

\* sort.Sort(sort.Reverse(sort.StringSlice(tags)))
SortAlphabeticalTags(tags) == InsertionSort(tags, "alphabetical")

\* The tags of the model.
T_1_2_3        == <<"1", ".", "2", ".", "3">>
T_v1_2_3       == <<"v", "1", ".", "2", ".", "3">>
T_1_2_3_alpine == <<"1", ".", "2", ".", "3", "-", "a", "l", "p", "i", "n", "e">>
T_v1_2         == <<"v", "1", ".", "2">>
T_1_2_0        == <<"1", ".", "2", ".", "0">>
T_1_10_0       == <<"1", ".", "1", "0", ".", "0">>
T_1_9_0        == <<"1", ".", "9", ".", "0">>
T_latest       == <<"l", "a", "t", "e", "s", "t">>
T_1_2_3_a      == <<"1", ".", "2", ".", "3", "+", "a">>
T_1_2_3_b_1    == <<"1", ".", "2", ".", "3", "+", "b", "-", "1">>

(***************************************************************************)
(* pkg/registry: image references (ParseImage over name.ParseReference)    *)
(***************************************************************************)

S_latest   == <<"l", "a", "t", "e", "s", "t">>
S_library  == <<"l", "i", "b", "r", "a", "r", "y", "/">>
S_sha256   == <<"s", "h", "a", "2", "5", "6", ":">>
S_dockerio == <<"d", "o", "c", "k", "e", "r", ".", "i", "o">>

\* name.DefaultRegistry
DefaultRegistry ==
  <<"i", "n", "d", "e", "x", ".", "d", "o", "c", "k", "e", "r", ".", "i", "o">>

\* The length of the hex part of a sha256 digest.
HexLen == 64

HexChars == Digits \cup {"a", "b", "c", "d", "e", "f"}

AllIn(s, set) == \A i \in 1..Len(s) : s[i] \in set

\* checkTag: one to 128 characters of [a-zA-Z0-9_.-] (no capitals here)
CheckTag(tag) ==
  Len(tag) \in 1..128 /\ AllIn(tag, Letters \cup Digits \cup {"_", ".", "-"})

\* checkRepository: 2 to 255 characters of [a-z0-9._/-]
CheckRepository(repo) ==
  Len(repo) \in 2..255 /\ AllIn(repo, Letters \cup Digits \cup {"_", "-", ".", "/"})

\* checkRegistry: a host, with a port or not
CheckRegistry(registry) == AllIn(registry, Letters \cup Digits \cup {".", "-", ":"})

\* name.NewRepository: the part before the first slash is the registry when
\* it holds a dot or a colon; docker.io is an alias of the default registry.
NewRepository(name) ==
  LET i     == IndexOf(name, "/")
      first == IF i = 0 THEN name ELSE SubSeq(name, 1, i - 1)
      isReg == i # 0 /\ (Contains(first, ".") \/ Contains(first, ":"))
      reg   == IF isReg THEN first ELSE <<>>
      repo  == IF isReg THEN SubSeq(name, i + 1, Len(name)) ELSE name
  IN  [ok         |-> name # <<>> /\ CheckRepository(repo) /\ CheckRegistry(reg),
       registry   |-> IF reg = <<>> \/ reg = S_dockerio THEN DefaultRegistry ELSE reg,
       repository |-> IF ~Contains(repo, "/") /\ (reg = <<>> \/ reg = S_dockerio)
                      THEN S_library \o repo ELSE repo]

\* name.NewTag: the part after the last colon is the tag unless it holds a
\* slash; a reference without a tag has the tag "latest".
NewTag(name) ==
  LET parts  == Split(name, ":")
      n      == Len(parts)
      hasTag == n > 1 /\ ~Contains(parts[n], "/")
      base   == IF hasTag THEN Join(SubSeq(parts, 1, n - 1), ":") ELSE name
      tag    == IF hasTag THEN parts[n] ELSE <<>>
      repo   == NewRepository(base)
  IN  [ok         |-> (tag = <<>> \/ CheckTag(tag)) /\ repo.ok,
       registry   |-> repo.registry,
       repository |-> repo.repository,
       tag        |-> IF tag = <<>> THEN S_latest ELSE tag]

\* name.NewDigest: base@sha256:<hex>; a tag in the base is dropped.
NewDigest(name) ==
  LET parts == Split(name, "@")
      base  == parts[1]
      dig   == IF Len(parts) = 2 THEN parts[2] ELSE <<>>
      hex   == TrimPrefix(dig, S_sha256)
      RepoOf(t) ==
        IF t.ok THEN NewRepository(t.registry \o <<"/">> \o t.repository)
        ELSE NewRepository(base)
      Result(repo) ==
        [ok         |-> /\ Len(parts) = 2
                        /\ HasPrefix(dig, S_sha256)
                        /\ Len(hex) = HexLen
                        /\ AllIn(hex, HexChars)
                        /\ repo.ok,
         registry   |-> repo.registry,
         repository |-> repo.repository,
         digest     |-> dig]
  IN  Result(RepoOf(NewTag(base)))

\* ParseImage keeping the default tag of a reference by digest.
ParseImage_DefaultTagKept(image) ==
  LET Result(t, d) ==
        IF t.ok
        THEN [ok |-> TRUE, Registry |-> t.registry, Repository |-> t.repository,
              Tag |-> t.tag, Digest |-> <<>>]
        ELSE IF d.ok
        THEN [ok |-> TRUE, Registry |-> d.registry, Repository |-> d.repository,
              Tag |-> S_latest, Digest |-> d.digest]
        ELSE [ok |-> FALSE, Registry |-> <<>>, Repository |-> <<>>,
              Tag |-> <<>>, Digest |-> <<>>]
  IN  Result(NewTag(image), NewDigest(image))

\* ParseImage: the reference as a tag, else as a digest, else an error.
ParseImage(image) ==
  LET Result(t, d) ==
        IF t.ok
        THEN [ok |-> TRUE, Registry |-> t.registry, Repository |-> t.repository,
              Tag |-> t.tag, Digest |-> <<>>]
        ELSE IF d.ok
        THEN [ok |-> TRUE, Registry |-> d.registry, Repository |-> d.repository,
              Tag |-> <<>>, Digest |-> d.digest]
        ELSE [ok |-> FALSE, Registry |-> <<>>, Repository |-> <<>>,
              Tag |-> <<>>, Digest |-> <<>>]
  IN  Result(NewTag(image), NewDigest(image))

\* The format without the registry.
FormatTagged_NoRegistry(info, tag) == info.Repository \o <<":">> \o tag

\* fmt.Sprintf("%s/%s:%s", imageInfo.Registry, imageInfo.Repository, tag)
FormatTagged(info, tag) == info.Registry \o <<"/">> \o info.Repository \o <<":">> \o tag

\* fmt.Sprintf("%s/%s@%s", imageInfo.Registry, imageInfo.Repository, digest)
FormatDigested(info, digest) ==
  info.Registry \o <<"/">> \o info.Repository \o <<"@">> \o digest

\* The name of the repository an image reference addresses.
RepoName(info) == info.Registry \o <<"/">> \o info.Repository

(***************************************************************************)
(* pkg/registry: the registry client. The registry is a map from           *)
(* <<repository name, tag>> to the digest the tag points at, and a map     *)
(* from repository name to the tag list it returns.                        *)
(***************************************************************************)

\* RegistryClient.GetDigest(image): net is the outcome of the network call.
GetDigest(image, net, digests) ==
  LET Result(t, d) ==
        LET key == <<t.registry \o <<"/">> \o t.repository, t.tag>>
        IN  IF ~t.ok /\ ~d.ok THEN [err |-> TRUE, digest |-> <<>>, calls |-> 0]
            ELSE IF net # "ok" THEN [err |-> TRUE, digest |-> <<>>, calls |-> 1]
            ELSE IF ~t.ok THEN [err |-> FALSE, digest |-> d.digest, calls |-> 1]
            ELSE IF key \in DOMAIN digests
            THEN [err |-> FALSE, digest |-> digests[key], calls |-> 1]
            ELSE [err |-> TRUE, digest |-> <<>>, calls |-> 1]
  IN  Result(NewTag(image), NewDigest(image))

\* RegistryClient.ListTags(image)
ListTags(image, net, taglists) ==
  LET Result(info) ==
        IF ~info.ok THEN [err |-> TRUE, tags |-> <<>>, calls |-> 0]
        ELSE IF net # "ok" \/ RepoName(info) \notin DOMAIN taglists
        THEN [err |-> TRUE, tags |-> <<>>, calls |-> 1]
        ELSE [err |-> FALSE, tags |-> taglists[RepoName(info)], calls |-> 1]
  IN  Result(ParseImage(image))

(***************************************************************************)
(* pkg/updater: the allow-tags filter                                      *)
(***************************************************************************)

S_regexp == <<"r", "e", "g", "e", "x", "p", ":">>

\* The patterns the model's workloads carry: ^[0-9.]+$ , ^v[0-9.]+ and the
\* pattern "[", which does not compile.
P_digits == <<"^", "[", "0", "-", "9", ".", "]", "+", "$">>
P_vdigits == <<"^", "v", "[", "0", "-", "9", ".", "]", "+">>
P_bad == <<"[">>

\* regexp.Compile succeeds.
RegexCompiles(p) == p \in {P_digits, P_vdigits}

\* re.MatchString(tag) for the patterns above.
RegexMatch(p, tag) ==
  IF p = P_digits THEN tag # <<>> /\ AllIn(tag, Digits \cup {"."})
  ELSE IF p = P_vdigits
  THEN Len(tag) >= 2 /\ tag[1] = "v" /\ tag[2] \in Digits \cup {"."}
  ELSE FALSE

\* SelectSeq with the pattern bound.
RECURSIVE MatchingTags(_, _)
MatchingTags(tags, p) ==
  IF tags = <<>> THEN <<>>
  ELSE (IF RegexMatch(p, Head(tags)) THEN <<Head(tags)>> ELSE <<>>)
       \o MatchingTags(Tail(tags), p)

\* filterTagsByRegex returning every tag when the pattern compiles.
filterTagsByRegex_KeepAll(tags, regexStr) ==
  IF regexStr = <<>> THEN [err |-> FALSE, tags |-> tags]
  ELSE IF ~RegexCompiles(regexStr) THEN [err |-> TRUE, tags |-> <<>>]
  ELSE [err |-> FALSE, tags |-> tags]

\* filterTagsByRegex
filterTagsByRegex(tags, regexStr) ==
  IF regexStr = <<>> THEN [err |-> FALSE, tags |-> tags]
  ELSE IF ~RegexCompiles(regexStr) THEN [err |-> TRUE, tags |-> <<>>]
  ELSE [err |-> FALSE, tags |-> MatchingTags(tags, regexStr)]

(***************************************************************************)
(* pkg/updater: the registry credentials (getRegistryClientForImage)       *)
(***************************************************************************)

\* The alphabet of base64.StdEncoding.
B64Alphabet ==
  <<"A", "B", "C", "D", "E", "F", "G", "H", "I", "J", "K", "L", "M", "N", "O", "P",
    "Q", "R", "S", "T", "U", "V", "W", "X", "Y", "Z", "a", "b", "c", "d", "e", "f",
    "g", "h", "i", "j", "k", "l", "m", "n", "o", "p", "q", "r", "s", "t", "u", "v",
    "w", "x", "y", "z", "0", "1", "2", "3", "4", "5", "6", "7", "8", "9", "+", "/">>

B64Chars == {B64Alphabet[i] : i \in 1..Len(B64Alphabet)}

\* The six bits a base64 character stands for; padding counts as zero.
B64Val(c) ==
  IF c = "=" THEN 0 ELSE (CHOOSE i \in 1..Len(B64Alphabet) : B64Alphabet[i] = c) - 1

\* The ASCII codes of the characters of Alphabet, in its order.
Ascii ==
  <<36, 43, 45, 46, 47>> \o [i \in 1..10 |-> 47 + i] \o <<58, 64, 91, 93, 94, 95>>
  \o [i \in 1..26 |-> 96 + i] \o <<126>>

\* The character of a byte; a byte outside Alphabet reads as "?".
Chr(n) ==
  IF \E i \in 1..Len(Ascii) : Ascii[i] = n
  THEN Alphabet[CHOOSE i \in 1..Len(Ascii) : Ascii[i] = n]
  ELSE "?"

\* StdEncoding accepts whole quanta of four characters, padded with one or
\* two "=" at the very end only.
B64Valid(s) ==
  /\ Len(s) % 4 = 0
  /\ \A i \in 1..Len(s) :
       \/ s[i] \in B64Chars
       \/ s[i] = "=" /\ i >= Len(s) - 1 /\ s[Len(s)] = "="

\* The bytes of a valid base64 string.
RECURSIVE B64Bytes(_)
B64Bytes(s) ==
  IF s = <<>> THEN <<>>
  ELSE LET pad == IF s[3] = "=" THEN 2 ELSE IF s[4] = "=" THEN 1 ELSE 0
           n   == B64Val(s[1]) * 262144 + B64Val(s[2]) * 4096
                  + B64Val(s[3]) * 64 + B64Val(s[4])
           Bytes(v) == <<v \div 65536, (v \div 256) % 256, v % 256>>
       IN  SubSeq(Bytes(n), 1, 3 - pad) \o B64Bytes(SubSeq(s, 5, Len(s)))

\* base64.StdEncoding.DecodeString followed by string(decoded)
DecodeString(s) ==
  LET Text(bytes) == [i \in 1..Len(bytes) |-> Chr(bytes[i])]
  IN  IF B64Valid(s) THEN [ok |-> TRUE, text |-> Text(B64Bytes(s))]
      ELSE [ok |-> FALSE, text |-> <<>>]

\* strings.SplitN(s, c, 2)
SplitN2(s, c) ==
  LET Cut(i) ==
        IF i = 0 THEN <<s>> ELSE <<SubSeq(s, 1, i - 1), SubSeq(s, i + 1, Len(s))>>
  IN  Cut(IndexOf(s, c))

\* corev1.SecretTypeDockerConfigJson
DockerConfigJson == "kubernetes.io/dockerconfigjson"

\* One entry of the auths map of a docker config document.
AuthEntry(username, password, auth) ==
  [username |-> username, password |-> password, auth |-> auth]

\* A secret: its type, whether its data holds the .dockerconfigjson key,
\* whether that document unmarshals, and the auths map (host -> entry) it
\* unmarshals to.
Secret(type, hasKey, valid, auths) ==
  [type |-> type, hasKey |-> hasKey, valid |-> valid, auths |-> auths]

\* What getRegistryClientForImage returns: the error (always nil), the
\* credentials of the client, the number of GetSecret calls made and the
\* position in the list of the secret the credentials come from (0: none).
Client(username, password, secretCalls, from) ==
  [err |-> FALSE, username |-> username, password |-> password,
   secretCalls |-> secretCalls, from |-> from]

\* The credentials an auths entry yields: the decoded auth token when it
\* splits into two parts at the first colon, else the two fields.
EntryCredentials(entry) ==
  LET Pick(parts) ==
        IF Len(parts) = 2 THEN [username |-> parts[1], password |-> parts[2]]
        ELSE [username |-> entry.username, password |-> entry.password]
  IN  IF entry.auth # <<>> THEN Pick(SplitN2(DecodeString(entry.auth).text, ":"))
      ELSE [username |-> entry.username, password |-> entry.password]

\* The loop over the secret names, from position i on: a secret that cannot
\* be fetched, is of another type, lacks the key, does not unmarshal, has no
\* entry for the host or has an auth token that does not decode is skipped.
RECURSIVE CredentialsFrom(_, _, _, _)
CredentialsFrom(secretNames, host, store, i) ==
  IF i > Len(secretNames) THEN Client(<<>>, <<>>, Len(secretNames), 0)
  ELSE IF secretNames[i] \notin DOMAIN store
  THEN CredentialsFrom(secretNames, host, store, i + 1)
  ELSE LET Use(secret) ==
             IF secret.type # DockerConfigJson \/ ~secret.hasKey \/ ~secret.valid
                \/ host \notin DOMAIN secret.auths
             THEN CredentialsFrom(secretNames, host, store, i + 1)
             ELSE LET Take(entry) ==
                        LET Make(c) == Client(c.username, c.password, i, i)
                        IN  IF entry.auth # <<>> /\ ~DecodeString(entry.auth).ok
                            THEN CredentialsFrom(secretNames, host, store, i + 1)
                            ELSE Make(EntryCredentials(entry))
                  IN  Take(secret.auths[host])
       IN  Use(store[secretNames[i]])

\* Reverse of a list.
Reverse(s) == [i \in 1..Len(s) |-> s[Len(s) + 1 - i]]

\* getRegistryClientForImage going through the secrets from the last one.
getRegistryClientForImage_LastFirst(image, secretNames, store) ==
  LET Resolve(imageInfo) ==
        IF ~imageInfo.ok THEN Client(<<>>, <<>>, 0, 0)
        ELSE LET Back(c) ==
                   [c EXCEPT !.from = IF c.from = 0 THEN 0
                                      ELSE Len(secretNames) + 1 - c.from]
             IN  Back(CredentialsFrom(Reverse(secretNames), imageInfo.Registry, store, 1))
  IN  Resolve(ParseImage(image))

\* getRegistryClientForImage: an image that does not parse gets the anonymous
\* client without a lookup.
getRegistryClientForImage(image, secretNames, store) ==
  LET Resolve(imageInfo) ==
        IF ~imageInfo.ok THEN Client(<<>>, <<>>, 0, 0)
        ELSE CredentialsFrom(secretNames, imageInfo.Registry, store, 1)
  IN  Resolve(ParseImage(image))

\* The secrets of the model's namespace. s-gone does not exist: its lookup
\* fails.
S_ghcr == <<"g", "h", "c", "r", ".", "i", "o">>
U_bob == <<"b", "o", "b">>
U_al == <<"a", "l">>
U_eve == <<"e", "v", "e">>
W_pw == <<"p", "w">>
W_x == <<"x">>
A_bob_pw == <<"Y", "m", "9", "i", "O", "n", "B", "3">>
A_al_x_y == <<"Y", "W", "w", "6", "e", "D", "p", "5">>
A_bob == <<"Y", "m", "9", "i">>
A_bad == <<"Y", "m", "9">>

SecretStore ==
  [n \in {"s-opaque", "s-nokey", "s-baddoc", "s-hub-fields", "s-hub-auth",
          "s-hub-colons", "s-hub-nocolon", "s-hub-badauth", "s-ghcr"} |->
     CASE n = "s-opaque" ->
            Secret("Opaque", TRUE, TRUE,
                   [h \in {DefaultRegistry} |-> AuthEntry(U_eve, W_x, <<>>)])
       [] n = "s-nokey" -> Secret(DockerConfigJson, FALSE, FALSE, <<>>)
       [] n = "s-baddoc" -> Secret(DockerConfigJson, TRUE, FALSE, <<>>)
       [] n = "s-hub-fields" ->
            Secret(DockerConfigJson, TRUE, TRUE,
                   [h \in {DefaultRegistry} |-> AuthEntry(U_al, W_x, <<>>)])
       [] n = "s-hub-auth" ->
            Secret(DockerConfigJson, TRUE, TRUE,
                   [h \in {DefaultRegistry} |-> AuthEntry(U_eve, W_x, A_bob_pw)])
       [] n = "s-hub-colons" ->
            Secret(DockerConfigJson, TRUE, TRUE,
                   [h \in {DefaultRegistry} |-> AuthEntry(<<>>, <<>>, A_al_x_y)])
       [] n = "s-hub-nocolon" ->
            Secret(DockerConfigJson, TRUE, TRUE,
                   [h \in {DefaultRegistry} |-> AuthEntry(U_eve, W_pw, A_bob)])
       [] n = "s-hub-badauth" ->
            Secret(DockerConfigJson, TRUE, TRUE,
                   [h \in {DefaultRegistry} |-> AuthEntry(U_eve, W_pw, A_bad)])
       [] n = "s-ghcr" ->
            Secret(DockerConfigJson, TRUE, TRUE,
                   [h \in {S_ghcr} |-> AuthEntry(U_bob, W_pw, <<>>)])]

SecretNames == DOMAIN SecretStore \cup {"s-gone"}

(***************************************************************************)
(* pkg/updater: the modes                                                  *)
(***************************************************************************)

\* What one mode check reports: the image to set (<<>> for none), the
\* registry calls it made, and what they returned.
ModeResult(err, newImage, listCalls, digestCalls, tags, fetched) ==
  [err |-> err, newImage |-> newImage, listCalls |-> listCalls,
   digestCalls |-> digestCalls, tags |-> tags, fetched |-> fetched]

\* checkReleaseMode with the tags sorted in descending order of the strings.
checkReleaseMode_Alphabetical(currentImage, net, allowTagsRegex, taglists) ==
  LET Decide(imageInfo, listed) ==
        LET Propose(sortedTags) ==
              IF Len(sortedTags) > 0 /\ sortedTags[1] # imageInfo.Tag
              THEN ModeResult(FALSE, FormatTagged(imageInfo, sortedTags[1]),
                              listed.calls, 0, listed.tags, <<>>)
              ELSE ModeResult(FALSE, <<>>, listed.calls, 0, listed.tags, <<>>)
            Filtered(filtered) ==
              IF filtered.err
              THEN ModeResult(TRUE, <<>>, listed.calls, 0, listed.tags, <<>>)
              ELSE Propose(SortAlphabeticalTags(VersionsOf(filtered.tags)))
        IN  IF ~imageInfo.ok THEN ModeResult(TRUE, <<>>, 0, 0, <<>>, <<>>)
            ELSE IF listed.err THEN ModeResult(TRUE, <<>>, listed.calls, 0, <<>>, <<>>)
            ELSE Filtered(filterTagsByRegex(listed.tags, allowTagsRegex))
  IN  Decide(ParseImage(currentImage), ListTags(currentImage, net, taglists))

\* checkReleaseMode proposing the top tag also when it is the current tag.
checkReleaseMode_AlwaysPropose(currentImage, net, allowTagsRegex, taglists) ==
  LET Decide(imageInfo, listed) ==
        LET Propose(sortedTags) ==
              IF Len(sortedTags) > 0
              THEN ModeResult(FALSE, FormatTagged(imageInfo, sortedTags[1]),
                              listed.calls, 0, listed.tags, <<>>)
              ELSE ModeResult(FALSE, <<>>, listed.calls, 0, listed.tags, <<>>)
            Filtered(filtered) ==
              IF filtered.err
              THEN ModeResult(TRUE, <<>>, listed.calls, 0, listed.tags, <<>>)
              ELSE Propose(SortVersionTags(filtered.tags))
        IN  IF ~imageInfo.ok THEN ModeResult(TRUE, <<>>, 0, 0, <<>>, <<>>)
            ELSE IF listed.err THEN ModeResult(TRUE, <<>>, listed.calls, 0, <<>>, <<>>)
            ELSE Filtered(filterTagsByRegex(listed.tags, allowTagsRegex))
  IN  Decide(ParseImage(currentImage), ListTags(currentImage, net, taglists))

\* checkReleaseMode
checkReleaseMode(currentImage, net, allowTagsRegex, taglists) ==
  LET Decide(imageInfo, listed) ==
        LET Propose(sortedTags) ==
              IF Len(sortedTags) > 0 /\ sortedTags[1] # imageInfo.Tag
              THEN ModeResult(FALSE, FormatTagged(imageInfo, sortedTags[1]),
                              listed.calls, 0, listed.tags, <<>>)
              ELSE ModeResult(FALSE, <<>>, listed.calls, 0, listed.tags, <<>>)
            Filtered(filtered) ==
              IF filtered.err
              THEN ModeResult(TRUE, <<>>, listed.calls, 0, listed.tags, <<>>)
              ELSE Propose(SortVersionTags(filtered.tags))
        IN  IF ~imageInfo.ok THEN ModeResult(TRUE, <<>>, 0, 0, <<>>, <<>>)
            ELSE IF listed.err THEN ModeResult(TRUE, <<>>, listed.calls, 0, <<>>, <<>>)
            ELSE Filtered(filterTagsByRegex(listed.tags, allowTagsRegex))
  IN  Decide(ParseImage(currentImage), ListTags(currentImage, net, taglists))

\* checkAlphabeticalMode keeping only the tags that parse as a version.
checkAlphabeticalMode_VersionsOnly(currentImage, net, allowTagsRegex, taglists) ==
  LET Decide(imageInfo, listed) ==
        LET Propose(sortedTags) ==
              IF Len(sortedTags) > 0 /\ sortedTags[1] # imageInfo.Tag
              THEN ModeResult(FALSE, FormatTagged(imageInfo, sortedTags[1]),
                              listed.calls, 0, listed.tags, <<>>)
              ELSE ModeResult(FALSE, <<>>, listed.calls, 0, listed.tags, <<>>)
            Filtered(filtered) ==
              IF filtered.err
              THEN ModeResult(TRUE, <<>>, listed.calls, 0, listed.tags, <<>>)
              ELSE Propose(SortAlphabeticalTags(VersionsOf(filtered.tags)))
        IN  IF ~imageInfo.ok THEN ModeResult(TRUE, <<>>, 0, 0, <<>>, <<>>)
            ELSE IF listed.err THEN ModeResult(TRUE, <<>>, listed.calls, 0, <<>>, <<>>)
            ELSE Filtered(filterTagsByRegex(listed.tags, allowTagsRegex))
  IN  Decide(ParseImage(currentImage), ListTags(currentImage, net, taglists))

\* checkAlphabeticalMode
checkAlphabeticalMode(currentImage, net, allowTagsRegex, taglists) ==
  LET Decide(imageInfo, listed) ==
        LET Propose(sortedTags) ==
              IF Len(sortedTags) > 0 /\ sortedTags[1] # imageInfo.Tag
              THEN ModeResult(FALSE, FormatTagged(imageInfo, sortedTags[1]),
                              listed.calls, 0, listed.tags, <<>>)
              ELSE ModeResult(FALSE, <<>>, listed.calls, 0, listed.tags, <<>>)
            Filtered(filtered) ==
              IF filtered.err
              THEN ModeResult(TRUE, <<>>, listed.calls, 0, listed.tags, <<>>)
              ELSE Propose(SortAlphabeticalTags(filtered.tags))
        IN  IF ~imageInfo.ok THEN ModeResult(TRUE, <<>>, 0, 0, <<>>, <<>>)
            ELSE IF listed.err THEN ModeResult(TRUE, <<>>, listed.calls, 0, <<>>, <<>>)
            ELSE Filtered(filterTagsByRegex(listed.tags, allowTagsRegex))
  IN  Decide(ParseImage(currentImage), ListTags(currentImage, net, taglists))

\* checkDigestMode
\* checkDigestMode proposing the fetched digest without comparing it.
checkDigestMode_AlwaysPropose(currentImage, net, tagToCheck, digests) ==
  LET Decide(imageInfo) ==
        LET Compare(got) ==
              IF got.err THEN ModeResult(TRUE, <<>>, 0, got.calls, <<>>, <<>>)
              ELSE ModeResult(FALSE, FormatDigested(imageInfo, got.digest), 0, got.calls,
                              <<>>, got.digest)
        IN  IF ~imageInfo.ok THEN ModeResult(TRUE, <<>>, 0, 0, <<>>, <<>>)
            ELSE Compare(GetDigest(FormatTagged(imageInfo, tagToCheck), net, digests))
  IN  Decide(ParseImage(currentImage))

checkDigestMode(currentImage, net, tagToCheck, digests) ==
  LET Decide(imageInfo) ==
        LET Compare(got) ==
              IF got.err THEN ModeResult(TRUE, <<>>, 0, got.calls, <<>>, <<>>)
              ELSE IF got.digest # imageInfo.Digest
              THEN ModeResult(FALSE, FormatDigested(imageInfo, got.digest), 0, got.calls,
                              <<>>, got.digest)
              ELSE ModeResult(FALSE, <<>>, 0, got.calls, <<>>, got.digest)
        IN  IF ~imageInfo.ok THEN ModeResult(TRUE, <<>>, 0, 0, <<>>, <<>>)
            ELSE Compare(GetDigest(FormatTagged(imageInfo, tagToCheck), net, digests))
  IN  Decide(ParseImage(currentImage))

\* What the evaluation of one container reports: the (bool, error) pair of
\* updateContainerIfNeeded, the workload object as the evaluation leaves it,
\* whether the evaluation panicked, the registry calls it made, and the
\* secrets it fetched (filled in by updateContainerIfNeeded).
EvalResult(updated, err, panicked, w, m) ==
  [updated |-> updated, err |-> err, panicked |-> panicked, w |-> w,
   listCalls |-> m.listCalls, digestCalls |-> m.digestCalls,
   tags |-> m.tags, fetched |-> m.fetched, secretCalls |-> 0]

NoCalls == ModeResult(FALSE, <<>>, 0, 0, <<>>, <<>>)

\* checkLatestMode reporting nothing on the first observation.
checkLatestMode_SilentFirst(w, currentImage, net, digests, t) ==
  LET Compare(got) ==
        LET m == ModeResult(got.err, <<>>, 0, got.calls, <<>>, got.digest)
            lastDigest == w.ann.lastDigest
            stored == [w EXCEPT !.ann.lastDigest = got.digest]
        IN  IF got.err THEN EvalResult(FALSE, TRUE, FALSE, w, m)
            ELSE IF lastDigest = <<>> THEN EvalResult(FALSE, FALSE, FALSE, stored, m)
            ELSE IF got.digest # lastDigest
            THEN IF w.tmplAnnNil
                 THEN EvalResult(FALSE, FALSE, TRUE, stored, m)
                 ELSE EvalResult(TRUE, FALSE, FALSE, [stored EXCEPT !.restartedAt = t], m)
            ELSE EvalResult(FALSE, FALSE, FALSE, w, m)
  IN  Compare(GetDigest(currentImage, net, digests))

\* checkLatestMode stamping the restart marker on the first observation too.
checkLatestMode_StampFirst(w, currentImage, net, digests, t) ==
  LET Compare(got) ==
        LET m == ModeResult(got.err, <<>>, 0, got.calls, <<>>, got.digest)
            lastDigest == w.ann.lastDigest
            stored == [w EXCEPT !.ann.lastDigest = got.digest]
        IN  IF got.err THEN EvalResult(FALSE, TRUE, FALSE, w, m)
            ELSE IF got.digest # lastDigest
            THEN IF w.tmplAnnNil
                 THEN EvalResult(FALSE, FALSE, TRUE, stored, m)
                 ELSE EvalResult(TRUE, FALSE, FALSE, [stored EXCEPT !.restartedAt = t], m)
            ELSE EvalResult(FALSE, FALSE, FALSE, w, m)
  IN  Compare(GetDigest(currentImage, net, digests))

\* checkLatestMode: w is the workload object (its annotations and its pod
\* template), t the current time. Writing the restart marker into a nil
\* annotation map of the pod template panics.
checkLatestMode(w, currentImage, net, digests, t) ==
  LET Compare(got) ==
        LET m == ModeResult(got.err, <<>>, 0, got.calls, <<>>, got.digest)
            lastDigest == w.ann.lastDigest
            stored == [w EXCEPT !.ann.lastDigest = got.digest]
        IN  IF got.err THEN EvalResult(FALSE, TRUE, FALSE, w, m)
            ELSE IF lastDigest = <<>> THEN EvalResult(TRUE, FALSE, FALSE, stored, m)
            ELSE IF got.digest # lastDigest
            THEN IF w.tmplAnnNil
                 THEN EvalResult(FALSE, FALSE, TRUE, stored, m)
                 ELSE EvalResult(TRUE, FALSE, FALSE, [stored EXCEPT !.restartedAt = t], m)
            ELSE EvalResult(FALSE, FALSE, FALSE, w, m)
  IN  Compare(GetDigest(currentImage, net, digests))

(***************************************************************************)
(* pkg/updater: the evaluation of one container                            *)
(***************************************************************************)

\* The pull policy test of latest mode, passing every container.
LatestModeAllowed_Any(container) == TRUE

\* case "latest": the container must have imagePullPolicy Always.
LatestModeAllowed(container) == container.pullPolicy = "Always"

\* The container filter, passing every container.
ContainerSelected_Any(w, container) == TRUE

\* The container annotation: unset, or the name of the container.
ContainerSelected(w, container) ==
  w.ann.container = "" \/ w.ann.container = container.name

\* The mode annotation, an unknown mode read as release.
ModeOf_UnknownIsRelease(w) ==
  IF w.ann.mode \in {"latest", "digest", "alphabetical", "name"}
  THEN w.ann.mode ELSE "release"

\* The mode annotation, an unknown mode read as latest.
ModeOf_UnknownIsLatest(w) ==
  IF w.ann.mode \in {"release", "digest", "alphabetical", "name"}
  THEN w.ann.mode ELSE IF w.ann.mode = "" THEN "release" ELSE "latest"

\* The mode annotation, release when unset.
ModeOf(w) == IF w.ann.mode = "" THEN "release" ELSE w.ann.mode

\* The tag digest mode monitors, always latest.
TagToCheck_Latest(allowTagsAnnotation) == S_latest

\* The tag digest mode monitors: the allow-tags annotation when it is set
\* and is not a pattern, else latest.
TagToCheck(allowTagsAnnotation) ==
  IF allowTagsAnnotation # <<>> /\ ~HasPrefix(allowTagsAnnotation, S_regexp)
  THEN allowTagsAnnotation ELSE S_latest

\* updateContainerIfNeeded(container i of the workload object w): net is the
\* outcome of the registry call the evaluation makes, taglists and digests
\* the registry, t the current time. The registry client is built from the
\* pull secrets of the pod template before the mode is looked at.
updateContainerIfNeeded(w, i, net, taglists, digests, t) ==
  LET container == w.containers[i]
      allowTagsAnnotation == w.ann.allowTags
      allowTagsRegex ==
        IF HasPrefix(allowTagsAnnotation, S_regexp)
        THEN TrimPrefix(allowTagsAnnotation, S_regexp) ELSE <<>>
      Assign(m) ==
        IF m.err THEN EvalResult(FALSE, TRUE, FALSE, w, m)
        ELSE IF m.newImage # <<>>
        THEN EvalResult(TRUE, FALSE, FALSE, [w EXCEPT !.containers[i].image = m.newImage], m)
        ELSE EvalResult(FALSE, FALSE, FALSE, w, m)
      skip == EvalResult(FALSE, FALSE, FALSE, w, NoCalls)
      Switch(mode) ==
        IF mode = "latest"
        THEN IF ~LatestModeAllowed(container) THEN skip
             ELSE checkLatestMode(w, container.image, net, digests, t)
        ELSE IF mode = "digest"
        THEN Assign(checkDigestMode(container.image, net,
                                    TagToCheck(allowTagsAnnotation), digests))
        ELSE IF mode \in {"alphabetical", "name"}
        THEN Assign(checkAlphabeticalMode(container.image, net, allowTagsRegex, taglists))
        ELSE IF mode = "release"
        THEN Assign(checkReleaseMode(container.image, net, allowTagsRegex, taglists))
        ELSE skip
      With(registryClient, r) ==
        [r EXCEPT !.secretCalls = registryClient.secretCalls]
  IN  IF w.ann.enabled # "true" THEN skip
      ELSE IF ~ContainerSelected(w, container) THEN skip
      ELSE With(getRegistryClientForImage(container.image, w.pullSecrets, SecretStore),
                Switch(ModeOf(w)))

(***************************************************************************)
(* State                                                                   *)
(***************************************************************************)

VARIABLES
  callTags,    \* the tag list a caller hands to a tag function
  callOp,      \* the tag function called last ("" before any call)
  callResult,  \* what that call returned
  callPattern, \* the pattern a caller hands to filterTagsByRegex
  credCall,    \* a call of getRegistryClientForImage: its arguments and result
  imgCall,     \* a call of ParseImage: its argument, its result and the result
               \* of parsing the result formatted as the modes format it
  boot,        \* the start of the process: its environment, the credential
               \* sources GetClient tried and used, and what main started
  req,         \* the API: the configured key, the number of requests served,
               \* the last request and what serving it did
  cluster,     \* the workload objects as the cluster stores them, by id
  version,     \* the resource version of each stored object
  regTags,     \* the registry: repository name -> the tag list it returns
  regDigest,   \* the registry: <<repository name, tag>> -> digest
  pushes,      \* the number of pushes the registry has seen
  now,         \* the clock; a pass starts on each tick
  pc,          \* where the reconciliation loop stands
  kindIdx,     \* the workload kind the pass is at (index into Kinds)
  listed,      \* the objects the listing of that kind returned
  objIdx,      \* the index in listed of the object the pass is at
  ctrIdx,      \* the index of the container to evaluate next
  deploy,      \* the pass's copy of the object it is at
  updated,     \* the updated flag of the object loop
  start,       \* Start: the tick buffered in the ticker's channel, whether the
               \* context is cancelled, and the passes in progress
  ev,          \* history: the last container evaluation
  wb,          \* history: the outcome of the last object the pass finished
  tally,       \* history: what the evaluations of the current object did
  settled,     \* history: by workload, its last pass wrote every container's
               \* digest back and the registry has not changed since
  lostWb,      \* history: by workload, the object the last pass over it listed
               \* and the object it sent, when every container was fetched,
               \* the write-back failed and nothing has changed since
  relApplied   \* history: by workload, the containers whose image a proposal
               \* (release, alphabetical or digest mode) set, written back,
               \* the registry data the mode reads unchanged since

procVars == <<imgCall, boot, req>>

sortVars == <<callTags, callOp, callResult, callPattern, credCall, procVars>>

clusterVars == <<cluster, version, regTags, regDigest, pushes>>

passVars == <<now, pc, kindIdx, listed, objIdx, ctrIdx, deploy, updated, start>>

histVars == <<ev, wb, tally, settled, relApplied, lostWb>>

vars == <<callTags, callOp, callResult, callPattern, credCall, imgCall, boot, req,
          cluster, version, regTags, regDigest, pushes,
          now, pc, kindIdx, listed, objIdx, ctrIdx, deploy, updated, start,
          ev, wb, tally, settled, relApplied, lostWb>>

(***************************************************************************)
(* The cluster, the registry and the histories                             *)
(***************************************************************************)

\* The bounds of the model: the ticks of a run and the pushes to the registry.
MaxPasses == 2
MaxPushes == 1

\* The order in which CheckAndUpdate goes through the workload kinds.
Kinds == <<"deployment", "statefulset", "daemonset">>

WorkloadIds == {1, 2}

IdSeq == <<1, 2>>

\* A digest: sha256: and HexLen times the hex digit c.
Sha(c) == S_sha256 \o [i \in 1..HexLen |-> c]

DigestPool == {Sha("a"), Sha("b")}

S_app == <<"a", "p", "p">>
S_db == <<"d", "b">>
I_app_latest == S_app \o <<":">> \o S_latest
I_db_latest == S_db \o <<":">> \o S_latest
I_app_1_2_0 == S_app \o <<":">> \o T_1_2_0
I_app_1_10_0 == S_app \o <<":">> \o T_1_10_0
I_app_bare == S_app
I_app_digest == S_app \o <<"@">> \o Sha("a")
I_db_1_9_0 == S_db \o <<":">> \o T_1_9_0
I_ghcr_app == S_ghcr \o <<"/">> \o S_app \o <<":", "1">>
I_unparsable == S_app \o <<":", "$">>
N_app == DefaultRegistry \o <<"/">> \o S_library \o S_app
N_db == DefaultRegistry \o <<"/">> \o S_library \o S_db

\* The entry of deploy while the pass is at no object.
NoObject ==
  [kind |-> "", namespace |-> "", name |-> "", labels |-> [enabled |-> ""],
   ann |-> [enabled |-> "", mode |-> "", container |-> "",
            allowTags |-> <<>>, lastDigest |-> <<>>],
   tmplAnnNil |-> TRUE, restartedAt |-> 0, pullSecrets |-> <<>>,
   containers |-> <<>>]

NoEval ==
  [id |-> 0, ctr |-> 0, pre |-> NoObject, post |-> NoObject, updated |-> FALSE,
   err |-> FALSE, panicked |-> FALSE, listCalls |-> 0, digestCalls |-> 0,
   tags |-> <<>>, fetched |-> <<>>, secretCalls |-> 0, wasApplied |-> FALSE,
   net |-> "", signalled |-> FALSE,
   at |-> 0]

\* No failed write-back on record.
NoLost == [orig |-> NoObject, sent |-> NoObject]

\* stale: the stored object had another resource version than the pass's
\* copy; stored: the stored object before the write-back; clean: as in the
\* tally; lost: the failed write-back on record for the object.
NoWriteBack ==
  [id |-> 0, updated |-> FALSE, attempted |-> FALSE, wrote |-> FALSE,
   orig |-> NoObject, sent |-> NoObject, wasSettled |-> FALSE,
   firstObs |-> FALSE, nUpdated |-> 0, nErr |-> 0, applied |-> {},
   released |-> {}, stale |-> FALSE, stored |-> NoObject, clean |-> FALSE,
   lost |-> NoLost]

\* clean: every evaluation of the object so far was a skip by the container
\* filter or a latest-mode evaluation that fetched its digest, and the
\* registry's digests did not change meanwhile.
\* Start as the loop specifications look at it: every tick is received when
\* Start is at its select (timed: the ticker and the context are modelled
\* apart from Start), and the context is never cancelled, as in main.
\* dropped: a tick fired while one was buffered; passAtSignal: the pass in
\* progress when the context was cancelled (0: none); returnedAt: the clock
\* when Start returned.
NoStart ==
  [timed |-> FALSE, ticks |-> 0, dropped |-> FALSE, cancelled |-> FALSE,
   passAtSignal |-> 0, running |-> 0, returnedAt |-> 0]

\* wbFailed: a write-back of the pass so far has failed.
NoTally ==
  [clean |-> TRUE, firstObs |-> FALSE, nUpdated |-> 0, nErr |-> 0, released |-> {},
   wbFailed |-> FALSE]

LoopOff ==
  /\ cluster = [id \in WorkloadIds |-> NoObject]
  /\ regTags = <<>>
  /\ regDigest = <<>>
  /\ pushes = 0
  /\ version = [id \in WorkloadIds |-> 1]
  /\ now = 0
  /\ pc = "off"
  /\ kindIdx = 0
  /\ listed = <<>>
  /\ objIdx = 0
  /\ ctrIdx = 0
  /\ deploy = NoObject
  /\ updated = FALSE
  /\ start = NoStart
  /\ ev = NoEval
  /\ wb = NoWriteBack
  /\ tally = NoTally
  /\ settled = [id \in WorkloadIds |-> FALSE]
  /\ relApplied = [id \in WorkloadIds |-> {}]
  /\ lostWb = [id \in WorkloadIds |-> NoLost]

\* No call of getRegistryClientForImage.
NoCredCall ==
  [image |-> <<>>, secretNames |-> <<>>, called |-> FALSE,
   result |-> Client(<<>>, <<>>, 0, 0)]

\* No call of ParseImage.
NoImgCall ==
  [image |-> <<>>, called |-> FALSE, result |-> ParseImage(<<>>),
   formatted |-> <<>>, reparsed |-> ParseImage(<<>>)]

\* The environment of a process: the configured kubeconfig path and the
\* file under $HOME ("unset", "nofile", "bad" or "good"), whether the
\* in-cluster configuration loads, whether the client can be built from the
\* configuration, and UPDATER_ENABLED.
Env(kubeConfig, home, inCluster, clientOk, updaterEnabled) ==
  [kubeConfig |-> kubeConfig, home |-> home, inCluster |-> inCluster,
   clientOk |-> clientOk, updaterEnabled |-> updaterEnabled]

\* A process whose start is not looked at: main has run.
NoBoot ==
  [env |-> Env("good", "unset", FALSE, TRUE, TRUE), state |-> "-", tried |-> <<>>,
   used |-> "", apiStarted |-> TRUE]

\* No request served, and no key configured (the default of API_KEY).
NoRequest ==
  [apiKey |-> "", n |-> 0, key |-> "", kind |-> "", namespace |-> "", service |-> "",
   container |-> "", image |-> <<>>, status |-> 0, handled |-> FALSE, gets |-> 0,
   updates |-> 0, result |-> "", obj |-> NoObject, sent |-> NoObject,
   changed |-> FALSE, at |-> 0]

\* No call, no start-up and no request outside the loop.
ProcOff == imgCall = NoImgCall /\ boot = NoBoot /\ req = NoRequest

\* The state of the loop when Start has been called and no tick has fired.
LoopIdle ==
  /\ ProcOff
  /\ callTags = <<>>
  /\ callOp = "-"
  /\ callResult = <<>>
  /\ callPattern = <<>>
  /\ credCall = NoCredCall
  /\ pushes = 0
  /\ version = [id \in WorkloadIds |-> 1]
  /\ now = 0
  /\ pc = "idle"
  /\ kindIdx = 0
  /\ listed = <<>>
  /\ objIdx = 0
  /\ ctrIdx = 0
  /\ deploy = NoObject
  /\ updated = FALSE
  /\ start = NoStart
  /\ ev = NoEval
  /\ wb = NoWriteBack
  /\ tally = NoTally
  /\ settled = [id \in WorkloadIds |-> FALSE]
  /\ relApplied = [id \in WorkloadIds |-> {}]
  /\ lostWb = [id \in WorkloadIds |-> NoLost]

Container(name, image, pullPolicy) ==
  [name |-> name, image |-> image, pullPolicy |-> pullPolicy]

\* A workload named web in the namespace default that carries the enabled
\* marker as a label and as an annotation.
Workload(kind, enabled, mode, container, allowTags, lastDigest, tmplAnnNil, containers) ==
  [kind |-> kind, namespace |-> "default", name |-> "web",
   labels |-> [enabled |-> enabled],
   ann |-> [enabled |-> enabled, mode |-> mode, container |-> container,
            allowTags |-> allowTags, lastDigest |-> lastDigest],
   tmplAnnNil |-> tmplAnnNil, restartedAt |-> 0, pullSecrets |-> <<>>,
   containers |-> containers]

PullPolicies == {"Always", "IfNotPresent"}

\* The configuration ALLOWED_NAMESPACES=default of the process.
AllowedNamespaces == {"default"}

\* Latest mode: a deployment of two containers and a statefulset of one.
InitLatest ==
  /\ LoopIdle
  /\ \E p1 \in PullPolicies, img2 \in {I_app_latest, I_db_latest},
        filter \in {"", "a"}, nil \in BOOLEAN :
       cluster =
         [id \in WorkloadIds |->
            IF id = 1
            THEN Workload("deployment", "true", "latest", filter, <<>>, <<>>, nil,
                          <<Container("a", I_app_latest, p1),
                            Container("b", img2, "Always")>>)
            ELSE Workload("statefulset", "true", "latest", "", <<>>, <<>>, TRUE,
                          <<Container("a", I_db_latest, "Always")>>)]
  /\ regTags = [n \in {N_app, N_db} |-> <<T_latest>>]
  /\ regDigest = [k \in {<<N_app, S_latest>>, <<N_db, S_latest>>} |->
                    IF k[1] = N_app THEN Sha("a") ELSE Sha("b")]

AllowTagsPool ==
  {<<>>, S_regexp \o P_digits, S_regexp \o P_vdigits, S_regexp \o P_bad}

RegTagLists ==
  {<<>>, <<T_latest>>, <<T_1_2_0, T_1_10_0, T_1_9_0>>, <<T_v1_2, T_1_2_0, T_latest>>,
   <<T_1_2_3, T_v1_2_3, T_1_2_3_alpine>>}

PushTagPool == {T_1_10_0, T_v1_2_3}

\* Release mode: a deployment of two containers and a statefulset of one.
InitRelease ==
  /\ LoopIdle
  /\ \E img1 \in {I_app_1_2_0, I_app_1_10_0, I_app_bare, I_app_digest},
        allow \in AllowTagsPool :
       cluster =
         [id \in WorkloadIds |->
            IF id = 1
            THEN Workload("deployment", "true", "", "", allow, <<>>, TRUE,
                          <<Container("a", img1, "Always"),
                            Container("b", I_db_1_9_0, "IfNotPresent")>>)
            ELSE Workload("statefulset", "true", "release", "", <<>>, <<>>, FALSE,
                          <<Container("a", I_app_1_2_0, "IfNotPresent")>>)]
  /\ \E l \in RegTagLists :
       regTags = [n \in {N_app, N_db} |-> IF n = N_app THEN l ELSE <<T_1_9_0>>]
  /\ regDigest = [k \in {<<N_app, S_latest>>} |-> Sha("a")]

\* The allow-tags annotations of the workloads of InitModes: unset, two
\* patterns (one that does not compile) and a tag.
ModeAllowTagsPool == {<<>>, S_regexp \o P_digits, S_regexp \o P_bad, T_1_9_0}

\* Every mode and an unknown one: a deployment of two containers with two
\* pull secrets, with or without a last-digest left by an earlier latest
\* mode, and a statefulset of one container in the namespace
\* kube-system that carries the enabled marker as an annotation only.
InitModes ==
  /\ LoopIdle
  /\ \E mode \in {"release", "latest", "alphabetical", "name", "digest", "weekly"},
        filter \in {"", "b"}, allow \in ModeAllowTagsPool,
        img1 \in {I_app_1_2_0, I_app_digest, I_unparsable},
        last \in {<<>>, Sha("a")} :
       cluster =
         [id \in WorkloadIds |->
            IF id = 1
            THEN [Workload("deployment", "true", mode, filter, allow, last, TRUE,
                           <<Container("a", img1, "Always"),
                             Container("b", I_db_1_9_0, "IfNotPresent")>>)
                    EXCEPT !.pullSecrets = <<"s-gone", "s-hub-fields">>]
            ELSE [Workload("statefulset", "true", "digest", "", T_1_9_0, <<>>, FALSE,
                           <<Container("a", I_db_1_9_0, "IfNotPresent")>>)
                    EXCEPT !.labels.enabled = "", !.namespace = "kube-system"]]
  /\ regTags = [n \in {N_app, N_db} |->
                  IF n = N_app THEN <<T_1_2_0, T_latest, T_1_10_0>> ELSE <<T_1_9_0>>]
  /\ regDigest = [k \in {<<N_app, S_latest>>, <<N_app, T_1_9_0>>, <<N_db, S_latest>>,
                         <<N_db, T_1_9_0>>} |->
                    IF k[2] = S_latest THEN Sha("b") ELSE Sha("a")]

(***************************************************************************)
(* pkg/updater: the reconciliation loop                                    *)
(***************************************************************************)

\* A listing that returns the copy of an object a failed write-back left.
RECURSIVE ObjectsOf_KeepsCopy(_, _)
ObjectsOf_KeepsCopy(kind, ids) ==
  IF ids = <<>> THEN <<>>
  ELSE (IF cluster[Head(ids)].kind = kind
        THEN <<[id |-> Head(ids),
                obj |-> IF lostWb[Head(ids)] # NoLost
                        THEN lostWb[Head(ids)].sent ELSE cluster[Head(ids)],
                rv |-> version[Head(ids)]]>>
        ELSE <<>>)
       \o ObjectsOf_KeepsCopy(kind, Tail(ids))

\* The objects of one kind, as a listing returns them: the stored objects,
\* each with its resource version.
RECURSIVE ObjectsOf(_, _)
ObjectsOf(kind, ids) ==
  IF ids = <<>> THEN <<>>
  ELSE (IF cluster[Head(ids)].kind = kind
        THEN <<[id |-> Head(ids), obj |-> cluster[Head(ids)],
                rv |-> version[Head(ids)]]>>
        ELSE <<>>)
       \o ObjectsOf(kind, Tail(ids))

\* An Update that the server accepts whatever the resource version is.
UpdateOutcome_LastWriterWins(api, rv, storedRv) == api

\* The outcome of Update<Kind>, which sends the object with the resource
\* version it was read at: an error of the call, a conflict when the stored
\* object has another resource version, or the object is stored.
UpdateOutcome(api, rv, storedRv) ==
  IF api # "ok" THEN "fail" ELSE IF rv # storedRv THEN "conflict" ELSE "ok"

\* The resource versions after a write: a write that changes the stored
\* object gives it a new resource version.
Bump(id, before, after) ==
  IF after # before THEN [version EXCEPT ![id] = @ + 1] ELSE version

\* Start receiving from the ticker's channel at any point of a pass.
StartCanReceive_MidPass(p) == p \in {"idle", "container"}

\* Start receiving from the ticker's channel while a listing is under way.
StartCanReceive_DuringListing(p) == p \in {"idle", "list"}

\* Start receives from a channel only at its select, which it reaches when
\* it is called and each time CheckAndUpdate has returned.
StartCanReceive(p) == p = "idle"

\* A call with a cancelled context that goes through all the same.
CtxCall_Background(cancelled, outcome) == outcome

\* The outcome of a call made with the context of Start (the listings, the
\* secret fetches and the registry calls): an error once the context is
\* cancelled.
CtxCall(cancelled, outcome) == IF cancelled THEN "fail" ELSE outcome

\* Start: a tick received from the ticker's channel starts CheckAndUpdate.
Tick ==
  /\ StartCanReceive(pc)
  /\ start.timed => start.ticks > 0
  /\ now < MaxPasses
  /\ now' = now + 1
  /\ start' = [start EXCEPT !.ticks = 0, !.running = @ + 1]
  /\ pc' = "list"
  /\ kindIdx' = 1
  /\ tally' = NoTally
  /\ ev' = NoEval
  /\ wb' = NoWriteBack
  /\ UNCHANGED <<sortVars, clusterVars, settled, relApplied, lostWb, listed, objIdx,
                 ctrIdx, deploy, updated>>

\* CheckAndUpdate goes on to the next kind, or ends the pass after the last.
ToNextKind ==
  /\ pc' = IF kindIdx < Len(Kinds) THEN "list" ELSE "idle"
  /\ start' = IF kindIdx < Len(Kinds) THEN start ELSE [start EXCEPT !.running = @ - 1]
  /\ kindIdx' = IF kindIdx < Len(Kinds) THEN kindIdx + 1 ELSE 0
  /\ listed' = <<>>
  /\ objIdx' = 0

\* updateDeployments / updateStatefulSets / updateDaemonSets: the listing,
\* which fails or returns the objects of the kind.
ListKind ==
  /\ pc = "list"
  /\ \E api \in {"ok", "fail"} :
       IF CtxCall(start.cancelled, api) = "ok"
       THEN /\ listed' = ObjectsOf(Kinds[kindIdx], IdSeq)
            /\ objIdx' = 1
            /\ pc' = "object"
            /\ UNCHANGED <<kindIdx, start>>
       ELSE ToNextKind
  /\ ev' = NoEval
  /\ wb' = NoWriteBack
  /\ UNCHANGED <<sortVars, clusterVars, tally, settled, relApplied, lostWb, now, ctrIdx,
                 deploy, updated>>

\* The head of the object loop: the end of the list, an object that is not
\* enabled, or an object to evaluate.
NextObject ==
  /\ pc = "object"
  /\ IF objIdx > Len(listed)
     THEN /\ ToNextKind
          /\ UNCHANGED <<ctrIdx, deploy, updated, tally>>
     ELSE IF listed[objIdx].obj.ann.enabled # "true"
     THEN /\ objIdx' = objIdx + 1
          /\ UNCHANGED <<pc, kindIdx, listed, ctrIdx, deploy, updated, tally, start>>
     ELSE /\ pc' = "container"
          /\ deploy' = listed[objIdx].obj
          /\ ctrIdx' = 1
          /\ updated' = FALSE
          /\ tally' = [NoTally EXCEPT !.wbFailed = tally.wbFailed]
          /\ UNCHANGED <<kindIdx, listed, objIdx, start>>
  /\ ev' = NoEval
  /\ wb' = NoWriteBack
  /\ UNCHANGED <<sortVars, clusterVars, now, settled, relApplied, lostWb>>

IsReleaseMode(w) == w.ann.mode \in {"", "release"}

\* The modes whose update is a new image for the container.
ProposesImage(w) == w.ann.mode # "latest"

\* The workload's mode reads the digests of the registry, not its tag lists.
ReadsDigests(w) == w.ann.mode \in {"latest", "digest"}

\* The container loop: updateContainerIfNeeded on the next container. A
\* panic ends the process.
EvalContainer ==
  /\ pc = "container"
  /\ ctrIdx <= Len(deploy.containers)
  /\ \E net \in {"ok", "fail"} :
     \E r \in {updateContainerIfNeeded(deploy, ctrIdx, CtxCall(start.cancelled, net),
                                        regTags, regDigest, now)} :
       LET id == listed[objIdx].id
           skipped == deploy.ann.container # ""
                      /\ deploy.ann.container # deploy.containers[ctrIdx].name
           observed == deploy.ann.mode = "latest" /\ r.digestCalls = 1 /\ ~r.err
       IN  /\ ev' = [id |-> id, ctr |-> ctrIdx, pre |-> deploy, post |-> r.w,
                     updated |-> r.updated, err |-> r.err, panicked |-> r.panicked,
                     listCalls |-> r.listCalls, digestCalls |-> r.digestCalls,
                     tags |-> r.tags, fetched |-> r.fetched,
                     secretCalls |-> r.secretCalls,
                     wasApplied |-> ctrIdx \in relApplied[id],
                     net |-> IF start.cancelled THEN net ELSE "",
                     signalled |-> start.cancelled, at |-> now]
           /\ IF r.panicked
              THEN /\ pc' = "crashed"
                   /\ UNCHANGED <<deploy, updated, ctrIdx, tally>>
              ELSE /\ deploy' = r.w
                   /\ updated' = (updated \/ (~r.err /\ r.updated))
                   /\ ctrIdx' = ctrIdx + 1
                   /\ tally' =
                        [clean    |-> tally.clean /\ (skipped \/ observed),
                         firstObs |-> tally.firstObs
                                      \/ (observed /\ deploy.ann.lastDigest = <<>>),
                         nUpdated |-> tally.nUpdated
                                      + (IF ~r.err /\ r.updated THEN 1 ELSE 0),
                         nErr     |-> tally.nErr + (IF r.err THEN 1 ELSE 0),
                         released |-> tally.released \cup
                                      (IF ProposesImage(deploy) /\ ~r.err /\ r.updated
                                       THEN {ctrIdx} ELSE {}),
                         wbFailed |-> tally.wbFailed]
                   /\ UNCHANGED pc
  /\ wb' = NoWriteBack
  /\ UNCHANGED <<sortVars, clusterVars, now, kindIdx, listed, objIdx, start, settled,
                 relApplied, lostWb>>

\* After the container loop: one Update of the object when a container
\* reported an update, which succeeds, fails or meets a conflict; the error
\* is only logged.
FinishObject ==
  /\ pc = "container"
  /\ ctrIdx > Len(deploy.containers)
  /\ \E api \in {"ok", "fail"} :
       LET id      == listed[objIdx].id
           outcome == UpdateOutcome(api, listed[objIdx].rv, version[id])
           wrote   == updated /\ outcome = "ok"
       IN  /\ cluster' = IF wrote THEN [cluster EXCEPT ![id] = deploy] ELSE cluster
           /\ version' = IF wrote THEN Bump(id, cluster[id], deploy) ELSE version
           /\ lostWb' = [lostWb EXCEPT ![id] =
                           IF updated /\ ~wrote /\ tally.clean
                           THEN [orig |-> listed[objIdx].obj, sent |-> deploy]
                           ELSE NoLost]
           /\ wb' = [id |-> id, updated |-> updated, attempted |-> updated,
                     wrote |-> wrote, orig |-> listed[objIdx].obj, sent |-> deploy,
                     wasSettled |-> settled[id], firstObs |-> tally.firstObs,
                     nUpdated |-> tally.nUpdated, nErr |-> tally.nErr,
                     applied |-> relApplied[id], released |-> tally.released,
                     stale |-> listed[objIdx].rv # version[id],
                     stored |-> cluster[id], clean |-> tally.clean,
                     lost |-> lostWb[id]]
           /\ settled' = [settled EXCEPT ![id] =
                            IF updated
                            THEN wrote /\ tally.clean /\ deploy.ann.mode = "latest"
                            ELSE settled[id] /\ tally.clean]
           /\ relApplied' = [relApplied EXCEPT ![id] =
                               IF wrote THEN relApplied[id] \cup tally.released
                               ELSE relApplied[id] \ tally.released]
           /\ tally' = [NoTally EXCEPT
                          !.wbFailed = tally.wbFailed \/ (updated /\ ~wrote)]
  /\ objIdx' = objIdx + 1
  /\ pc' = "object"
  /\ deploy' = NoObject
  /\ ctrIdx' = 0
  /\ updated' = FALSE
  /\ ev' = NoEval
  /\ UNCHANGED <<sortVars, regTags, regDigest, pushes, now, kindIdx, listed, start>>

\* The registry moves a tag to another digest.
PushDigest ==
  /\ pc \in {"idle", "list", "object", "container"}
  /\ pushes < MaxPushes
  /\ \E k \in DOMAIN regDigest, d \in DigestPool :
       /\ d # regDigest[k]
       /\ regDigest' = [regDigest EXCEPT ![k] = d]
  /\ pushes' = pushes + 1
  /\ settled' = [id \in WorkloadIds |-> FALSE]
  /\ relApplied' = [id \in WorkloadIds |->
                      IF ReadsDigests(cluster[id]) THEN {} ELSE relApplied[id]]
  /\ tally' = [tally EXCEPT !.clean = FALSE,
                            !.released = IF ReadsDigests(deploy) THEN {} ELSE @]
  /\ ev' = NoEval
  /\ wb' = NoWriteBack
  /\ lostWb' = [id \in WorkloadIds |-> NoLost]
  /\ UNCHANGED <<sortVars, cluster, version, regTags, passVars>>

\* The registry gets a new tag in a repository.
PushTag ==
  /\ pc \in {"idle", "list", "object", "container"}
  /\ pushes < MaxPushes
  /\ \E n \in DOMAIN regTags, t \in PushTagPool :
       /\ \A i \in 1..Len(regTags[n]) : regTags[n][i] # t
       /\ regTags' = [regTags EXCEPT ![n] = Append(regTags[n], t)]
  /\ pushes' = pushes + 1
  /\ relApplied' = [id \in WorkloadIds |->
                      IF ReadsDigests(cluster[id]) THEN relApplied[id] ELSE {}]
  /\ tally' = [tally EXCEPT !.released = IF ReadsDigests(deploy) THEN @ ELSE {}]
  /\ ev' = NoEval
  /\ wb' = NoWriteBack
  /\ UNCHANGED <<sortVars, cluster, version, regDigest, passVars, settled, lostWb>>

\* The steps of Start and of the pass it runs.
PassStep ==
  \/ Tick
  \/ ListKind
  \/ NextObject
  \/ EvalContainer
  \/ FinishObject

NextLatest == PassStep \/ PushDigest

NextRelease == PassStep \/ PushTag

NextLoop == PassStep \/ PushDigest \/ PushTag

SpecLatest == InitLatest /\ [][NextLatest]_vars

SpecRelease == InitRelease /\ [][NextRelease]_vars

SpecModes == InitModes /\ [][PassStep]_vars

\* Digest and alphabetical mode with a registry that changes: a deployment
\* of two containers and a statefulset of one.
InitConverge ==
  /\ LoopIdle
  /\ \E mode \in {"digest", "alphabetical", "name"},
        img1 \in {I_app_1_2_0, I_app_digest}, allow \in {<<>>, T_1_9_0} :
       cluster =
         [id \in WorkloadIds |->
            IF id = 1
            THEN Workload("deployment", "true", mode, "", allow, <<>>, TRUE,
                          <<Container("a", img1, "Always"),
                            Container("b", I_db_1_9_0, "IfNotPresent")>>)
            ELSE Workload("statefulset", "true",
                          IF mode = "digest" THEN "name" ELSE "digest", "", <<>>,
                          <<>>, FALSE,
                          <<Container("a", I_db_1_9_0, "IfNotPresent")>>)]
  /\ regTags = [n \in {N_app, N_db} |->
                  IF n = N_app THEN <<T_1_2_0, T_1_9_0>> ELSE <<T_1_9_0>>]
  /\ regDigest = [k \in {<<N_app, S_latest>>, <<N_app, T_1_9_0>>, <<N_db, S_latest>>,
                         <<N_db, T_1_9_0>>} |->
                    IF k[2] = S_latest THEN Sha("b") ELSE Sha("a")]

SpecConverge == InitConverge /\ [][NextLoop]_vars

(***************************************************************************)
(* pkg/updater: Start, its ticker and its context                          *)
(***************************************************************************)

\* Start has been called with a context that can be cancelled: a deployment
\* of two containers and a statefulset of one, in latest mode.
InitStart ==
  /\ ProcOff
  /\ callTags = <<>>
  /\ callOp = "-"
  /\ callResult = <<>>
  /\ callPattern = <<>>
  /\ credCall = NoCredCall
  /\ cluster =
       [id \in WorkloadIds |->
          IF id = 1
          THEN Workload("deployment", "true", "latest", "", <<>>, <<>>, FALSE,
                        <<Container("a", I_app_latest, "Always"),
                          Container("b", I_db_latest, "Always")>>)
          ELSE Workload("statefulset", "true", "latest", "", <<>>, <<>>, FALSE,
                        <<Container("a", I_db_latest, "Always")>>)]
  /\ regTags = [n \in {N_app, N_db} |-> <<T_latest>>]
  /\ regDigest = [k \in {<<N_app, S_latest>>, <<N_db, S_latest>>} |->
                    IF k[1] = N_app THEN Sha("a") ELSE Sha("b")]
  /\ pushes = 0
  /\ version = [id \in WorkloadIds |-> 1]
  /\ now = 0
  /\ pc = "idle"
  /\ kindIdx = 0
  /\ listed = <<>>
  /\ objIdx = 0
  /\ ctrIdx = 0
  /\ deploy = NoObject
  /\ updated = FALSE
  /\ start = [NoStart EXCEPT !.timed = TRUE]
  /\ ev = NoEval
  /\ wb = NoWriteBack
  /\ tally = NoTally
  /\ settled = [id \in WorkloadIds |-> FALSE]
  /\ relApplied = [id \in WorkloadIds |-> {}]
  /\ lostWb = [id \in WorkloadIds |-> NoLost]

\* The ticker fires, whatever Start is doing: its channel holds one tick,
\* and a tick that finds the channel full is dropped.
TimerFires ==
  /\ start.timed
  /\ pc \in {"idle", "list", "object", "container"}
  /\ start' = [start EXCEPT !.ticks = 1, !.dropped = @ \/ start.ticks = 1]
  /\ ev' = NoEval
  /\ wb' = NoWriteBack
  /\ UNCHANGED <<sortVars, clusterVars, now, pc, kindIdx, listed, objIdx, ctrIdx, deploy,
                 updated, tally, settled, relApplied, lostWb>>

\* The context of Start is cancelled, whatever Start is doing.
Cancel ==
  /\ start.timed
  /\ ~start.cancelled
  /\ pc \in {"idle", "list", "object", "container"}
  /\ start' = [start EXCEPT !.cancelled = TRUE, !.passAtSignal = IF pc = "idle" THEN 0 ELSE now]
  /\ ev' = NoEval
  /\ wb' = NoWriteBack
  /\ UNCHANGED <<sortVars, clusterVars, now, pc, kindIdx, listed, objIdx, ctrIdx, deploy,
                 updated, tally, settled, relApplied, lostWb>>

\* Start at its select receives from ctx.Done() and returns; when a tick is
\* buffered too, the select takes either case.
StartReturns ==
  /\ StartCanReceive(pc)
  /\ start.cancelled
  /\ pc' = "returned"
  /\ start' = [start EXCEPT !.ticks = 0, !.returnedAt = now]
  /\ ev' = NoEval
  /\ wb' = NoWriteBack
  /\ UNCHANGED <<sortVars, clusterVars, now, kindIdx, listed, objIdx, ctrIdx, deploy,
                 updated, tally, settled, relApplied, lostWb>>

NextStart == PassStep \/ TimerFires \/ Cancel \/ StartReturns

SpecStart == InitStart /\ [][NextStart]_vars

(***************************************************************************)
(* The tag functions called on their own                                   *)
(***************************************************************************)

\* The longest tag list the callers hand over, and the tags they are made of.
MaxTags == 3

TagPool ==
  {T_1_2_3, T_v1_2_3, T_1_2_3_alpine, T_v1_2, T_1_2_0, T_1_10_0, T_1_9_0,
   T_latest, T_1_2_3_a, T_1_2_3_b_1}

\* The input and the expectation of TestSortVersionTags.
TestTags ==
  << <<"v", "1", ".", "2", ".", "0">>, <<"v", "1", ".", "1", ".", "0">>,
     <<"v", "1", ".", "1", "0", ".", "0">>, <<"v", "2", ".", "0", ".", "0">>,
     <<"1", ".", "5", ".", "0">>, <<"1", ".", "4", ".", "1">> >>

TestExpected ==
  << <<"v", "2", ".", "0", ".", "0">>, <<"v", "1", ".", "1", "0", ".", "0">>,
     <<"v", "1", ".", "2", ".", "0">>, <<"v", "1", ".", "1", ".", "0">>,
     <<"1", ".", "5", ".", "0">>, <<"1", ".", "4", ".", "1">> >>

\* The tag list of the filter example: 1.0, 2.0-beta, v3.
FilterExample ==
  << <<"1", ".", "0">>, <<"2", ".", "0", "-", "b", "e", "t", "a">>, <<"v", "3">> >>

\* The patterns a caller hands to filterTagsByRegex.
PatternPool == {<<>>, P_digits, P_vdigits, P_bad}

TagLists == UNION {[1..n -> TagPool] : n \in 0..MaxTags}

InitSort ==
  /\ callTags \in TagLists \cup {TestTags, FilterExample}
  /\ callOp = ""
  /\ callResult = <<>>
  /\ callPattern = <<>>
  /\ credCall = NoCredCall
  /\ ProcOff
  /\ LoopOff

\* A caller calls SortVersionTags(callTags): the argument is only read.
CallSortVersionTags ==
  /\ callOp = ""
  /\ callOp' = "SortVersionTags"
  /\ callResult' = SortVersionTags(callTags)
  /\ UNCHANGED <<callTags, callPattern, credCall, procVars, clusterVars, passVars,
                 histVars>>

\* A caller calls SortAlphabeticalTags(callTags): the slice is sorted in place
\* and returned.
CallSortAlphabeticalTags ==
  /\ callOp = ""
  /\ callOp' = "SortAlphabeticalTags"
  /\ callResult' = SortAlphabeticalTags(callTags)
  /\ callTags' = SortAlphabeticalTags(callTags)
  /\ UNCHANGED <<callPattern, credCall, procVars, clusterVars, passVars, histVars>>

\* A caller calls filterTagsByRegex(callTags, p): the argument is only read;
\* the result is the input slice itself, a new slice, or nil with an error.
CallFilterTagsByRegex ==
  /\ callOp = ""
  /\ \E p \in PatternPool :
       /\ callPattern' = p
       /\ callResult' = filterTagsByRegex(callTags, p)
  /\ callOp' = "filterTagsByRegex"
  /\ UNCHANGED <<callTags, credCall, procVars, clusterVars, passVars, histVars>>

NextSort == CallSortVersionTags \/ CallSortAlphabeticalTags \/ CallFilterTagsByRegex

SpecSort == InitSort /\ [][NextSort]_vars

(***************************************************************************)
(* getRegistryClientForImage called on its own                             *)
(***************************************************************************)

MaxSecrets == 2

\* The images of the calls: one on the default registry, one on ghcr.io and
\* one that does not parse.
CredImages == {I_app_latest, I_ghcr_app, I_unparsable}

SecretNameLists == UNION {[1..n -> SecretNames] : n \in 0..MaxSecrets}

InitCreds ==
  /\ callTags = <<>>
  /\ callOp = "-"
  /\ callResult = <<>>
  /\ callPattern = <<>>
  /\ \E image \in CredImages, names \in SecretNameLists :
       credCall = [NoCredCall EXCEPT !.image = image, !.secretNames = names]
  /\ ProcOff
  /\ LoopOff

\* A caller calls getRegistryClientForImage(image, secretNames) against the
\* secrets of the namespace.
CallGetRegistryClientForImage ==
  /\ pc = "off"
  /\ credCall.image # <<>>
  /\ ~credCall.called
  /\ credCall' =
       [credCall EXCEPT
          !.called = TRUE,
          !.result = getRegistryClientForImage(credCall.image, credCall.secretNames,
                                               SecretStore)]
  /\ UNCHANGED <<callTags, callOp, callResult, callPattern, procVars, clusterVars,
                 passVars, histVars>>

SpecCreds == InitCreds /\ [][CallGetRegistryClientForImage]_vars

(***************************************************************************)
(* ParseImage called on its own                                            *)
(***************************************************************************)

\* The parts the image strings of the calls are made of: what stands before
\* the name, the name, and what follows it.
ImagePrefixes ==
  {<<>>, S_ghcr \o <<"/">>, S_dockerio \o <<"/">>,
   <<"l", "o", "c", "a", "l", ":", "5", "0", "0", "0", "/">>, <<"l", "i", "b", "/">>}

ImageNames == {S_app, <<"a">>, <<"a", "$", "p">>}

ImageSuffixes ==
  {<<>>, <<":">>, <<":">> \o T_1_2_0, <<":">> \o S_latest, <<":", "$">>,
   <<"@">> \o Sha("a"), <<"@">> \o S_sha256 \o <<"a", "b", "c">>,
   <<":">> \o T_1_2_0 \o <<"@">> \o Sha("b")}

ImagePool == {p \o n \o s : p \in ImagePrefixes, n \in ImageNames, s \in ImageSuffixes}

\* The string the modes build from a parsed reference and its own tag or
\* digest.
FormatImage(info) ==
  IF info.Digest # <<>> THEN FormatDigested(info, info.Digest)
  ELSE FormatTagged(info, info.Tag)

\* The table of TestParseImage: the references and whether the test expects
\* an error.
TestImages ==
  { [image |->
       <<"d", "o", "c", "k", "e", "r", ".", "i", "o", "/", "l", "i", "b", "r", "a",
         "r", "y", "/", "n", "g", "i", "n", "x", ":", "l", "a", "t", "e", "s", "t">>,
     wantErr |-> FALSE],
    [image |->
       <<"g", "c", "r", ".", "i", "o", "/", "m", "y", "-", "p", "r", "o", "j", "e",
         "c", "t", "/", "m", "y", "-", "i", "m", "a", "g", "e", ":", "v", "1", ".",
         "0", ".", "0">>,
     wantErr |-> FALSE],
    [image |->
       <<"r", "e", "g", "i", "s", "t", "r", "y", ".", "i", "n", "v", "a", "l", "i",
         "d", "/", "i", "m", "a", "g", "e", "@", "s", "h", "a", "2", "5", "6", ":",
         "1", "2", "3", "4", "5", "6", "7", "8", "9", "0", "a", "b", "c", "d", "e",
         "f">>,
     wantErr |-> FALSE],
    [image |->
       <<"i", "n", "v", "a", "l", "i", "d", "-", "i", "m", "a", "g", "e", "-", "r",
         "e", "f", "e", "r", "e", "n", "c", "e">>,
     wantErr |-> TRUE] }

InitParse ==
  /\ callTags = <<>>
  /\ callOp = "-"
  /\ callResult = <<>>
  /\ callPattern = <<>>
  /\ credCall = NoCredCall
  /\ \E image \in ImagePool \cup {t.image : t \in TestImages} :
       imgCall = [NoImgCall EXCEPT !.image = image]
  /\ boot = NoBoot
  /\ req = NoRequest
  /\ LoopOff

\* A caller calls ParseImage(image) and, when it succeeds, parses the
\* formatted result again.
CallParseImage ==
  /\ pc = "off"
  /\ imgCall.image # <<>>
  /\ ~imgCall.called
  /\ \E r \in {ParseImage(imgCall.image)} :
       imgCall' =
         [imgCall EXCEPT
            !.called = TRUE,
            !.result = r,
            !.formatted = IF r.ok THEN FormatImage(r) ELSE <<>>,
            !.reparsed = IF r.ok THEN ParseImage(FormatImage(r)) ELSE r]
  /\ UNCHANGED <<callTags, callOp, callResult, callPattern, credCall, boot, req,
                 clusterVars, passVars, histVars>>

SpecParse == InitParse /\ [][CallParseImage]_vars

\* The calls of ParseImage and the passes over the workloads of every mode.
SpecImages == (InitParse \/ InitModes) /\ [][CallParseImage \/ PassStep]_vars

(***************************************************************************)
(* main and pkg/k8s GetClient: the start of the process                    *)
(***************************************************************************)

\* The credential sources in the order GetClient goes through them.
Sources == <<"kubeconfig", "home", "incluster">>

\* GetClient going to the file under $HOME first.
GetClient_HomeFirst(env) ==
  LET try2 == env.home \in {"bad", "good"}
      ok2  == try2 /\ env.home = "good"
      try1 == ~ok2 /\ env.kubeConfig # "unset"
      ok1  == try1 /\ env.kubeConfig = "good"
      try3 == ~ok1 /\ ~ok2
      ok3  == try3 /\ env.inCluster
      used == IF ok2 THEN "home" ELSE IF ok1 THEN "kubeconfig"
              ELSE IF ok3 THEN "incluster" ELSE ""
  IN  [err   |-> used = "" \/ ~env.clientOk,
       used  |-> used,
       tried |-> (IF try2 THEN <<"home">> ELSE <<>>)
                 \o (IF try1 THEN <<"kubeconfig">> ELSE <<>>)
                 \o (IF try3 THEN <<"incluster">> ELSE <<>>)]

\* GetClient: the configured path when it is set, then the file under $HOME
\* when HOME is set and the file exists, then the in-cluster configuration;
\* the first configuration that loads goes to NewForConfig.
GetClient(env) ==
  LET try1 == env.kubeConfig # "unset"
      ok1  == try1 /\ env.kubeConfig = "good"
      try2 == ~ok1 /\ env.home \in {"bad", "good"}
      ok2  == try2 /\ env.home = "good"
      try3 == ~ok1 /\ ~ok2
      ok3  == try3 /\ env.inCluster
      used == IF ok1 THEN "kubeconfig" ELSE IF ok2 THEN "home"
              ELSE IF ok3 THEN "incluster" ELSE ""
  IN  [err   |-> used = "" \/ ~env.clientOk,
       used  |-> used,
       tried |-> (IF try1 THEN <<"kubeconfig">> ELSE <<>>)
                 \o (IF try2 THEN <<"home">> ELSE <<>>)
                 \o (IF try3 THEN <<"incluster">> ELSE <<>>)]

\* A process about to run main, in a cluster of one deployment in latest mode.
InitBoot ==
  /\ callTags = <<>>
  /\ callOp = "-"
  /\ callResult = <<>>
  /\ callPattern = <<>>
  /\ credCall = NoCredCall
  /\ imgCall = NoImgCall
  /\ req = NoRequest
  /\ \E kubeConfig \in {"unset", "bad", "good"},
        home \in {"unset", "nofile", "bad", "good"},
        inCluster \in BOOLEAN, clientOk \in BOOLEAN, updaterEnabled \in BOOLEAN :
       boot = [NoBoot EXCEPT
                 !.env = Env(kubeConfig, home, inCluster, clientOk, updaterEnabled),
                 !.state = "init", !.apiStarted = FALSE]
  /\ cluster =
       [id \in WorkloadIds |->
          IF id = 1
          THEN Workload("deployment", "true", "latest", "", <<>>, <<>>, FALSE,
                        <<Container("a", I_app_latest, "Always")>>)
          ELSE NoObject]
  /\ regTags = [n \in {N_app} |-> <<T_latest>>]
  /\ regDigest = [k \in {<<N_app, S_latest>>} |-> Sha("a")]
  /\ pushes = 0
  /\ version = [id \in WorkloadIds |-> 1]
  /\ now = 0
  /\ pc = "off"
  /\ kindIdx = 0
  /\ listed = <<>>
  /\ objIdx = 0
  /\ ctrIdx = 0
  /\ deploy = NoObject
  /\ updated = FALSE
  /\ start = NoStart
  /\ ev = NoEval
  /\ wb = NoWriteBack
  /\ tally = NoTally
  /\ settled = [id \in WorkloadIds |-> FALSE]
  /\ relApplied = [id \in WorkloadIds |-> {}]
  /\ lostWb = [id \in WorkloadIds |-> NoLost]

\* main: with the updater enabled, NewUpdater calls GetClient; an error is
\* fatal, else Start runs in its goroutine. Then the router is set up and
\* the server runs.
Main ==
  /\ boot.state = "init"
  /\ \E r \in {GetClient(boot.env)} :
       IF boot.env.updaterEnabled
       THEN IF r.err
            THEN /\ boot' = [boot EXCEPT !.state = "exited", !.tried = r.tried,
                                         !.used = r.used]
                 /\ UNCHANGED pc
            ELSE /\ boot' = [boot EXCEPT !.state = "serving", !.tried = r.tried,
                                         !.used = r.used, !.apiStarted = TRUE]
                 /\ pc' = "idle"
       ELSE /\ boot' = [boot EXCEPT !.state = "serving", !.apiStarted = TRUE]
            /\ UNCHANGED pc
  /\ UNCHANGED <<callTags, callOp, callResult, callPattern, credCall, imgCall, req,
                 clusterVars, now, kindIdx, listed, objIdx, ctrIdx, deploy, updated,
                 start, histVars>>

SpecBoot == InitBoot /\ [][Main \/ PassStep]_vars

(***************************************************************************)
(* The API: AuthMiddleware, UpdateImage and pkg/k8s Update<Kind>Image      *)
(***************************************************************************)

\* The number of requests a run serves.
MaxRequests == 2

\* AuthMiddleware letting a request without the header pass.
AuthMiddleware_NoHeaderPasses(key, apiKey) == key = apiKey \/ key = ""

\* AuthMiddleware: whether the request goes on to the handler; the header
\* X-API-Key is compared with the configured key.
AuthMiddleware(key, apiKey) == key = apiKey

\* strings.ToLower over the kinds of the requests.
ToLower(kind) ==
  CASE kind = "Deployment"  -> "deployment"
    [] kind = "StatefulSet" -> "statefulset"
    [] kind = "DaemonSet"   -> "daemonset"
    [] OTHER                -> kind

\* The ids of the objects a Get of (kind, namespace, name) finds.
GetObject(kind, namespace, name) ==
  {id \in WorkloadIds : /\ cluster[id].kind = kind
                        /\ cluster[id].namespace = namespace
                        /\ cluster[id].name = name}

\* restartDeployment (and its two copies): the restart marker on the pod
\* template, whose annotation map is made when it is nil, and one Update.
restartDeployment(obj, t) ==
  [obj EXCEPT !.tmplAnnNil = FALSE, !.restartedAt = t]

\* What Update<Kind>Image returns: the error, the message, the object it
\* sent and the number of Update calls.
ImageUpdate(err, result, sent, updates) ==
  [err |-> err, result |-> result, sent |-> sent, updates |-> updates]

\* UpdateDeploymentImage always taking the first container.
UpdateDeploymentImage_FirstContainer(obj, container, image, updateOk, t) ==
  LET cs == obj.containers
  IN  IF cs = <<>>
      THEN ImageUpdate(TRUE, "not found", obj, 0)
      ELSE IF cs[1].image = image /\ cs[1].pullPolicy = "Always"
      THEN ImageUpdate(~updateOk, IF updateOk THEN "restarted" ELSE "restart failed",
                       restartDeployment(obj, t), 1)
      ELSE IF cs[1].image # image
      THEN ImageUpdate(~updateOk, IF updateOk THEN "updated" ELSE "update failed",
                       [obj EXCEPT !.containers[1].image = image], 1)
      ELSE ImageUpdate(FALSE, "up to date", obj, 0)

\* UpdateDeploymentImage, UpdateStatefulSetImage and UpdateDaemonSetImage
\* (the same code) after the Get: the loop returns at the first container of
\* the name whose image is the given one under pull policy Always (restart)
\* or another one (the image is set and the object updated).
UpdateDeploymentImage(obj, container, image, updateOk, t) ==
  LET cs     == obj.containers
      target == IF container = "" /\ Len(cs) > 0 THEN cs[1].name ELSE container
      found  == {i \in 1..Len(cs) : cs[i].name = target}
      acting == {i \in found : cs[i].image # image \/ cs[i].pullPolicy = "Always"}
      First(i) ==
        IF cs[i].image = image
        THEN ImageUpdate(~updateOk, IF updateOk THEN "restarted" ELSE "restart failed",
                         restartDeployment(obj, t), 1)
        ELSE ImageUpdate(~updateOk, IF updateOk THEN "updated" ELSE "update failed",
                         [obj EXCEPT !.containers[i].image = image], 1)
  IN  IF acting # {} THEN First(CHOOSE i \in acting : \A j \in acting : i <= j)
      ELSE IF found = {} THEN ImageUpdate(TRUE, "not found", obj, 0)
      ELSE ImageUpdate(FALSE, "up to date", obj, 0)

\* UpdateImage: the handler of GET /api/v1/update. The parameters are
\* validated, a client is made, and the object is read and updated.
UpdateImage(namespace, service, kind, container, image, getOk, updateOk, t) ==
  LET k     == ToLower(IF kind = "" THEN "deployment" ELSE kind)
      ids   == GetObject(k, namespace, service)
      Done(status, gets, r, id) ==
        [status |-> status, gets |-> gets, updates |-> r.updates, result |-> r.result,
         id |-> id, sent |-> r.sent]
      None(result) == ImageUpdate(TRUE, result, NoObject, 0)
      Found(id, r) == Done(IF r.err THEN 500 ELSE 200, 1, r, id)
  IN  IF namespace = "" \/ service = "" \/ image = <<>>
      THEN Done(400, 0, None("required"), 0)
      ELSE IF k \notin {"deployment", "statefulset", "daemonset"}
      THEN Done(400, 0, None("kind"), 0)
      ELSE IF GetClient(boot.env).err
      THEN Done(500, 0, None("client"), 0)
      ELSE IF ~getOk \/ ids = {}
      THEN Done(500, 1, None("get failed"), 0)
      ELSE Found(CHOOSE id \in ids : TRUE,
                 UpdateDeploymentImage(cluster[CHOOSE id \in ids : TRUE], container,
                                       image, updateOk, t))

\* The requests: the X-API-Key headers, and the query parameters, which name
\* the deployment web with every container and image of the pools, or differ
\* from such a request in one parameter.
RequestKeys == {"", "k1", "k2"}

RequestContainers == {"", "b", "c"}

RequestImages == {I_app_1_2_0, I_db_1_9_0}

Query(namespace, service, kind, container, image) ==
  [namespace |-> namespace, service |-> service, kind |-> kind,
   container |-> container, image |-> image]

RequestQueries ==
  {Query("default", "web", "", c, i) : c \in RequestContainers, i \in RequestImages}
  \cup {Query("default", "web", k, "", I_app_1_2_0) : k \in {"StatefulSet", "job"}}
  \cup {Query(n, "web", "", "", I_app_1_2_0) : n \in {"", "kube-system"}}
  \cup {Query("default", s, "", "", I_app_1_2_0) : s \in {"", "gone"}}
  \cup {Query("default", "web", "", "", <<>>)}

\* A serving process without the updater, with or without a configured key:
\* a deployment of two containers and a statefulset of none, both named web
\* in the namespace default.
InitApi ==
  /\ callTags = <<>>
  /\ callOp = "-"
  /\ callResult = <<>>
  /\ callPattern = <<>>
  /\ credCall = NoCredCall
  /\ imgCall = NoImgCall
  /\ boot = [NoBoot EXCEPT !.env.updaterEnabled = FALSE]
  /\ \E apiKey \in {"", "k1"} : req = [NoRequest EXCEPT !.apiKey = apiKey]
  /\ \E p1 \in PullPolicies, nil \in BOOLEAN :
       cluster =
         [id \in WorkloadIds |->
            IF id = 1
            THEN Workload("deployment", "", "", "", <<>>, <<>>, nil,
                          <<Container("a", I_app_1_2_0, p1),
                            Container("b", I_db_1_9_0, "Always")>>)
            ELSE Workload("statefulset", "", "", "", <<>>, <<>>, TRUE, <<>>)]
  /\ regTags = <<>>
  /\ regDigest = <<>>
  /\ pushes = 0
  /\ version = [id \in WorkloadIds |-> 1]
  /\ now = 0
  /\ pc = "off"
  /\ kindIdx = 0
  /\ listed = <<>>
  /\ objIdx = 0
  /\ ctrIdx = 0
  /\ deploy = NoObject
  /\ updated = FALSE
  /\ start = NoStart
  /\ ev = NoEval
  /\ wb = NoWriteBack
  /\ tally = NoTally
  /\ settled = [id \in WorkloadIds |-> FALSE]
  /\ relApplied = [id \in WorkloadIds |-> {}]
  /\ lostWb = [id \in WorkloadIds |-> NoLost]

\* The server serves a request with one of the given headers and queries:
\* the middleware, then the handler. The time of the request is its number.
Serve(keys, queries) ==
  /\ boot.apiStarted
  /\ req.n < MaxRequests
  /\ \E key \in keys, q \in queries, getOk \in BOOLEAN, updateOk \in BOOLEAN :
       LET Served(status, handled, r) ==
             /\ req' = [apiKey |-> req.apiKey, n |-> req.n + 1, key |-> key,
                        kind |-> q.kind, namespace |-> q.namespace,
                        service |-> q.service, container |-> q.container,
                        image |-> q.image, status |-> status,
                        handled |-> handled, gets |-> r.gets, updates |-> r.updates,
                        result |-> r.result,
                        obj |-> IF r.id = 0 THEN NoObject ELSE cluster[r.id],
                        sent |-> r.sent,
                        changed |-> r.id # 0 /\ r.updates > 0 /\ updateOk
                                    /\ r.sent # cluster[r.id],
                        at |-> req.n + 1]
             /\ cluster' = IF r.id # 0 /\ r.updates > 0 /\ updateOk
                           THEN [cluster EXCEPT ![r.id] = r.sent] ELSE cluster
             /\ version' = IF r.id # 0 /\ r.updates > 0 /\ updateOk
                           THEN Bump(r.id, cluster[r.id], r.sent) ELSE version
             /\ lostWb' = IF r.id # 0 /\ r.updates > 0 /\ updateOk
                          THEN [lostWb EXCEPT ![r.id] = NoLost] ELSE lostWb
       IN  IF ~AuthMiddleware(key, req.apiKey)
           THEN Served(401, FALSE,
                       [gets |-> 0, updates |-> 0, result |-> "", id |-> 0,
                        sent |-> NoObject])
           ELSE \E r \in {UpdateImage(q.namespace, q.service, q.kind, q.container,
                                      q.image, getOk, updateOk, req.n + 1)} :
                  Served(r.status, TRUE, r)
  /\ ev' = NoEval
  /\ wb' = NoWriteBack
  /\ UNCHANGED <<callTags, callOp, callResult, callPattern, credCall, imgCall, boot,
                 regTags, regDigest, pushes, passVars, tally, settled, relApplied>>

\* A request of any kind.
Request == Serve(RequestKeys, RequestQueries)

\* The manual updates of the deployment web: each image of the pool for its
\* first container or for the container b, sent without a key.
WriterQueries ==
  {Query("default", "web", "", c, i) : c \in {"", "b"}, i \in RequestImages}

ManualUpdate == Serve({""}, WriterQueries)

SpecApi == InitApi /\ [][Request]_vars

\* The updater and the API in one process, as main starts them: a
\* release-mode deployment of two containers and a statefulset of one that
\* is not enabled, both named web in the namespace default, and a newer tag
\* of app in the registry.
InitWriters ==
  /\ LoopIdle
  /\ cluster =
       [id \in WorkloadIds |->
          IF id = 1
          THEN Workload("deployment", "true", "release", "", <<>>, <<>>, TRUE,
                        <<Container("a", I_app_1_2_0, "IfNotPresent"),
                          Container("b", I_db_1_9_0, "Always")>>)
          ELSE Workload("statefulset", "", "release", "", <<>>, <<>>, FALSE,
                        <<Container("a", I_app_1_2_0, "IfNotPresent")>>)]
  /\ regTags = [n \in {N_app, N_db} |->
                  IF n = N_app THEN <<T_1_2_0, T_1_10_0>> ELSE <<T_1_9_0>>]
  /\ regDigest = [k \in {<<N_app, S_latest>>} |-> Sha("a")]

\* The goroutine of Start and the handlers of the server run concurrently.
SpecWriters == InitWriters /\ [][PassStep \/ ManualUpdate]_vars

(***************************************************************************)
(* The whole model                                                         *)
(***************************************************************************)

Init ==
  \/ InitSort
  \/ InitCreds
  \/ InitParse
  \/ InitBoot
  \/ InitApi
  \/ InitStart
  \/ InitLatest
  \/ InitRelease
  \/ InitModes
  \/ InitConverge
  \/ InitWriters

Next ==
  \/ NextSort
  \/ CallGetRegistryClientForImage
  \/ CallParseImage
  \/ Main
  \/ Request
  \/ ManualUpdate
  \/ NextStart
  \/ PushDigest
  \/ PushTag

Spec == Init /\ [][Next]_vars

\* The number of times t occurs in the list s.
Count(s, t) == Cardinality({i \in 1..Len(s) : s[i] = t})

\* The elements of the list s.
Elems(s) == {s[i] : i \in 1..Len(s)}

(***************************************************************************)
(* Properties of latest mode                                               *)
(***************************************************************************)

\* The container the last evaluation was called on.
EvContainer == ev.pre.containers[ev.ctr]

\* The last step was an evaluation that got past the enabled check and the
\* container filter.
EvConsidered ==
  /\ ev.id # 0
  /\ ev.pre.ann.enabled = "true"
  /\ ev.pre.ann.container = "" \/ ev.pre.ann.container = EvContainer.name

\* The last step was a latest-mode evaluation of a container with pull policy
\* Always whose digest fetch succeeded.
EvLatestFetched ==
  /\ EvConsidered
  /\ ev.pre.ann.mode = "latest"
  /\ EvContainer.pullPolicy = "Always"
  /\ ev.digestCalls = 1
  /\ ~ev.err

\* The pod template of a workload object: the containers and the template's
\* annotations.
PodTemplate(w) == <<w.containers, w.tmplAnnNil, w.restartedAt>>

\* C1: latest mode is quiescent when nothing changes. When the last pass over
\* a latest-mode workload fetched the digest of every evaluated container
\* (all with pull policy Always) and last-digest has been written back, and
\* no digest in the registry has changed since, the next pass over the
\* workload reports no update, stamps no restart marker and issues no
\* write-back.
C1_LatestModeQuiescent ==
  (wb.id # 0 /\ wb.wasSettled) =>
    /\ ~wb.updated
    /\ ~wb.attempted
    /\ wb.sent.restartedAt = wb.orig.restartedAt

\* C2: latest mode, first observation. With pull policy Always, a successful
\* digest fetch and no last-digest stored, the evaluation stores the fetched
\* digest, which is the digest the registry holds for the image, as
\* last-digest and reports update-needed without an error.
C2_FirstObservationStoresAndReports ==
  (EvLatestFetched /\ ev.pre.ann.lastDigest = <<>>) =>
    /\ ev.fetched \in DigestPool
    /\ ev.post.ann.lastDigest = ev.fetched
    /\ ev.updated
    /\ ~ev.panicked

\* The first observation happened with the registry holding either digest.
C2_Witness ==
  /\ EvLatestFetched
  /\ ev.pre.ann.lastDigest = <<>>
  /\ ev.fetched = Sha("b")
  /\ EvContainer.image = I_app_latest
  /\ ev.post.ann.lastDigest = Sha("b")
  /\ ev.updated

\* C3 as the specification states it: on the pass that sees a latest-mode
\* container with no stored last-digest, the write-back carries a change to
\* the pod template (the restart marker), not only the last-digest annotation.
C3_FirstObservationCarriesRestart ==
  (wb.id # 0 /\ wb.firstObs /\ wb.attempted) =>
    PodTemplate(wb.sent) # PodTemplate(wb.orig)

\* C3, amended: the first observation stores last-digest, reports
\* update-needed and leaves the pod template (restart marker and images) as it
\* is; a write-back whose only updating evaluation was a first observation
\* carries the new last-digest annotation and no change to the pod template.
C3_FirstObservationCarriesNoRestart ==
  /\ (EvLatestFetched /\ ev.pre.ann.lastDigest = <<>>) =>
       /\ ev.updated
       /\ PodTemplate(ev.post) = PodTemplate(ev.pre)
  /\ (wb.id # 0 /\ wb.firstObs /\ wb.nUpdated = 1) =>
       /\ wb.attempted
       /\ wb.sent.ann.lastDigest # <<>>
       /\ wb.orig.ann.lastDigest = <<>>
       /\ PodTemplate(wb.sent) = PodTemplate(wb.orig)

\* A write-back went out whose only update was the first observation.
C3_Witness ==
  /\ wb.id # 0
  /\ wb.firstObs
  /\ wb.nUpdated = 1
  /\ wb.wrote
  /\ wb.sent.ann.lastDigest = Sha("a")
  /\ ~wb.orig.tmplAnnNil

\* C4: latest mode, changed digest. With a last-digest stored and a fetched
\* digest that differs from it, the evaluation overwrites last-digest with
\* the fetched digest, stamps the restart marker with the current time on the
\* pod template annotations, reports update-needed, and leaves the
\* container's image as it is.
C4_ChangedDigestStampsAndReports ==
  (EvLatestFetched /\ ev.pre.ann.lastDigest # <<>>
     /\ ev.fetched # ev.pre.ann.lastDigest) =>
    /\ ev.post.ann.lastDigest = ev.fetched
    /\ ~ev.panicked
    /\ ev.post.restartedAt = ev.at
    /\ ev.updated
    /\ ev.post.containers = ev.pre.containers

\* C5: latest mode requires pull policy Always. The evaluation of a
\* latest-mode container whose pull policy is not Always returns no update and
\* no error, fetches no digest, and changes neither last-digest, the restart
\* marker nor the image.
C5_LatestRequiresPullAlways ==
  (EvConsidered /\ ev.pre.ann.mode = "latest" /\ EvContainer.pullPolicy # "Always") =>
    /\ ~ev.updated
    /\ ~ev.err
    /\ ~ev.panicked
    /\ ev.digestCalls = 0
    /\ ev.listCalls = 0
    /\ ev.post = ev.pre

\* A latest-mode container with pull policy IfNotPresent was evaluated while
\* the registry held a digest for its image.
C5_Witness ==
  /\ EvConsidered
  /\ ev.pre.ann.mode = "latest"
  /\ EvContainer.pullPolicy = "IfNotPresent"
  /\ EvContainer.image = I_app_latest
  /\ <<N_app, S_latest>> \in DOMAIN regDigest
  /\ ~ev.updated

(***************************************************************************)
(* Properties of release mode                                              *)
(***************************************************************************)

\* The pattern of the allow-tags annotation of the evaluated workload.
EvAllowTagsRegex ==
  IF HasPrefix(ev.pre.ann.allowTags, S_regexp)
  THEN TrimPrefix(ev.pre.ann.allowTags, S_regexp) ELSE <<>>

\* The listed tags that pass the filter and parse as a version.
EvCandidates ==
  {t \in Elems(ev.tags) :
     /\ EvAllowTagsRegex = <<>> \/ RegexMatch(EvAllowTagsRegex, t)
     /\ TagVersion(t).ok}

\* The last step was a release-mode evaluation.
EvRelease == EvConsidered /\ IsReleaseMode(ev.pre)

\* C6: the release mode proposal rule. An evaluation that lists the tags
\* sets the image registry/repository:T exactly when some listed tag passes
\* the filter and parses as a version and T, the first of the filtered,
\* version-sorted list, differs from the current image's tag; T is a listed
\* tag that passes the filter and parses as a version, and no such tag has a
\* greater version; otherwise, and on an error, nothing is proposed and the
\* workload is left as it is.
C6_ReleaseProposalRule ==
  EvRelease =>
    LET info   == ParseImage(EvContainer.image)
        sorted == SortVersionTags(SelectSeq(ev.tags, LAMBDA t : t \in EvCandidates))
        top    == sorted[1]
        should == ~ev.err /\ EvCandidates # {} /\ top # info.Tag
    IN  /\ ev.updated <=> should
        /\ ev.digestCalls = 0
        /\ ~ev.panicked
        /\ ~ev.err => /\ ev.listCalls = 1
                      /\ ev.tags = regTags[RepoName(info)]
        /\ should =>
             /\ top \in EvCandidates
             /\ \A u \in EvCandidates :
                  VersionCompare(TagVersion(top), TagVersion(u)) >= 0
             /\ ev.post = [ev.pre EXCEPT !.containers[ev.ctr].image =
                                           FormatTagged(info, top)]
        /\ ~should => ev.post = ev.pre

\* Release mode moved app:1.2.0 to the top of the filtered list, past the
\* tags the filter drops.
C6_Witness ==
  /\ EvRelease
  /\ ev.updated
  /\ ev.pre.ann.allowTags = S_regexp \o P_digits
  /\ EvContainer.image = I_app_1_2_0
  /\ T_latest \in Elems(ev.tags)
  /\ T_v1_2 \in Elems(ev.tags)
  /\ ev.post.containers[ev.ctr].image = N_app \o <<":">> \o T_1_10_0

\* C7: release mode is idempotent. Once a release proposal for a container
\* has been written back, every later evaluation of the container against
\* the same tag list and the same filter proposes nothing and leaves the
\* workload as it is.
C7_ReleaseIdempotent ==
  (EvRelease /\ ev.wasApplied) =>
    /\ ~ev.updated
    /\ ev.post = ev.pre

\* A container that release mode had moved to a tag was evaluated again on a
\* later pass, the tag list read and unchanged.
C7_Witness ==
  /\ EvRelease
  /\ ev.wasApplied
  /\ ev.at = 2
  /\ ev.listCalls = 1
  /\ ~ev.err
  /\ Len(ev.tags) >= 3
  /\ EvContainer.image = N_app \o <<":">> \o T_1_10_0

(***************************************************************************)
(* Properties of the tag orderings                                         *)
(***************************************************************************)

\* C8: SortVersionTags on the list of TestSortVersionTags returns the list the
\* test expects, the v-prefixed tags before the unprefixed ones.
C8_TestSortVersionTags ==
  (callOp = "SortVersionTags" /\ callTags = TestTags) => callResult = TestExpected

Rearrangements(s) ==
  {[i \in 1..Len(s) |-> s[p[i]]] : p \in Permutations(1..Len(s))}

\* C11: the tag orderings are deterministic in the multiset of inputs. For
\* every list that is a rearrangement of the list a tag function was called
\* on, SortVersionTags returns the list it returned for that one, and so
\* does SortAlphabeticalTags.
C11_SortsDependOnMultisetOnly ==
  /\ callOp = "SortVersionTags" =>
       \A p \in Rearrangements(callTags) : SortVersionTags(p) = callResult
  /\ callOp = "SortAlphabeticalTags" =>
       \A p \in Rearrangements(callTags) : SortAlphabeticalTags(p) = callResult

\* C12: the tag functions have no side effect. A call of SortVersionTags,
\* SortAlphabeticalTags or filterTagsByRegex leaves the list the caller
\* passed in with the same elements in the same order.
C12_TagFunctionsLeaveInputAlone == [][callTags' = callTags]_vars

\* C13: filterTagsByRegex returns the input list when the pattern is empty;
\* for a pattern that compiles, the input tags that match it, in input order
\* (1.0, 2.0-beta, v3 under ^[0-9.]+$ gives 1.0 alone); for a pattern that
\* does not compile, an error and no tag list.
C13_FilterTagsByRegex ==
  callOp = "filterTagsByRegex" =>
    /\ callPattern = <<>> => callResult = [err |-> FALSE, tags |-> callTags]
    /\ (callPattern # <<>> /\ RegexCompiles(callPattern)) =>
         /\ ~callResult.err
         /\ callResult.tags = SelectSeq(callTags, LAMBDA t : RegexMatch(callPattern, t))
    /\ ~(callPattern = <<>> \/ RegexCompiles(callPattern)) =>
         /\ callResult.err
         /\ callResult.tags = <<>>
    /\ (callTags = FilterExample /\ callPattern = P_digits) =>
         callResult.tags = << <<"1", ".", "0">> >>

\* The filter example was run.
C13_Witness ==
  /\ callOp = "filterTagsByRegex"
  /\ callTags = FilterExample
  /\ callPattern = P_digits
  /\ callResult = [err |-> FALSE, tags |-> << <<"1", ".", "0">> >>]

\* The secret at position i of the call's list has an entry for host.
HasEntry(names, i, host) ==
  /\ names[i] \in DOMAIN SecretStore
  /\ SecretStore[names[i]].type = DockerConfigJson
  /\ SecretStore[names[i]].hasKey
  /\ SecretStore[names[i]].valid
  /\ host \in DOMAIN SecretStore[names[i]].auths

\* ... and the auth token of that entry, when it has one, decodes.
HasUsableEntry(names, i, host) ==
  /\ HasEntry(names, i, host)
  /\ \/ SecretStore[names[i]].auths[host].auth = <<>>
     \/ B64Valid(SecretStore[names[i]].auths[host].auth)

\* The first position of names that satisfies P, 0 when none does.
FirstEntry(names, host) ==
  IF \E i \in 1..Len(names) : HasEntry(names, i, host)
  THEN CHOOSE i \in 1..Len(names) :
         HasEntry(names, i, host) /\ \A j \in 1..(i - 1) : ~HasEntry(names, j, host)
  ELSE 0

FirstUsableEntry(names, host) ==
  IF \E i \in 1..Len(names) : HasUsableEntry(names, i, host)
  THEN CHOOSE i \in 1..Len(names) :
         /\ HasUsableEntry(names, i, host)
         /\ \A j \in 1..(i - 1) : ~HasUsableEntry(names, j, host)
  ELSE 0

\* The host of the image of the call, "" when the image does not parse.
CredHost == IF ParseImage(credCall.image).ok THEN ParseImage(credCall.image).Registry ELSE <<>>

EvAlphabetical == EvConsidered /\ ev.pre.ann.mode \in {"alphabetical", "name"}

\* The listed tags that pass the filter.
EvFiltered ==
  {t \in Elems(ev.tags) : EvAllowTagsRegex = <<>> \/ RegexMatch(EvAllowTagsRegex, t)}

\* C14: the alphabetical mode proposal rule, for the modes alphabetical and
\* name. Every listed tag that passes the filter takes part, whether or not
\* it parses as a version. The evaluation sets the image
\* registry/repository:T exactly when the filtered list is not empty and T,
\* its lexicographically greatest tag, differs from the current image's tag;
\* otherwise, and on an error, nothing is proposed and the workload is left
\* as it is.
C14_AlphabeticalProposalRule ==
  EvAlphabetical =>
    LET info   == ParseImage(EvContainer.image)
        top    == CHOOSE t \in EvFiltered : \A u \in EvFiltered : u = t \/ StrLess(u, t)
        should == ~ev.err /\ EvFiltered # {} /\ top # info.Tag
    IN  /\ ev.updated <=> should
        /\ ev.digestCalls = 0
        /\ ~ev.panicked
        /\ ~ev.err => /\ ev.listCalls = 1
                      /\ ev.tags = regTags[RepoName(info)]
        /\ should => ev.post = [ev.pre EXCEPT !.containers[ev.ctr].image =
                                                FormatTagged(info, top)]
        /\ ~should => ev.post = ev.pre

\* The mode name moved app:1.2.0 to the tag latest, which is no version and
\* is the greatest string of the list.
C14_Witness ==
  /\ EvAlphabetical
  /\ ev.pre.ann.mode = "name"
  /\ ev.pre.ann.allowTags = <<>>
  /\ EvContainer.image = I_app_1_2_0
  /\ ev.tags = <<T_1_2_0, T_latest, T_1_10_0>>
  /\ ev.updated
  /\ ev.post.containers[ev.ctr].image = N_app \o <<":">> \o T_latest

\* The last step was a digest-mode evaluation.
EvDigest == EvConsidered /\ ev.pre.ann.mode = "digest"

\* The tag a digest-mode evaluation of the workload has to monitor.
EvMonitoredTag ==
  IF ev.pre.ann.allowTags # <<>> /\ ~HasPrefix(ev.pre.ann.allowTags, S_regexp)
  THEN ev.pre.ann.allowTags ELSE S_latest

\* C15: the digest mode proposal rule. The monitored tag is the allow-tags
\* annotation when it is set and has no regexp: prefix, else latest. The
\* evaluation fetches the digest D the registry holds for
\* registry/repository:monitoredTag and sets the image registry/repository@D
\* exactly when D differs from the digest of the current image reference
\* (empty for a tag-addressed image); otherwise, and on an error, the workload
\* is left as it is.
C15_DigestProposalRule ==
  EvDigest =>
    LET info == ParseImage(EvContainer.image)
    IN  /\ ev.listCalls = 0
        /\ ~ev.panicked
        /\ ~ev.err =>
             /\ ev.digestCalls = 1
             /\ ev.fetched = regDigest[<<RepoName(info), EvMonitoredTag>>]
        /\ ev.updated <=> (~ev.err /\ ev.fetched # info.Digest)
        /\ ev.updated => ev.post = [ev.pre EXCEPT !.containers[ev.ctr].image =
                                                    FormatDigested(info, ev.fetched)]
        /\ ~ev.updated => ev.post = ev.pre

\* The image app@sha256:aa.. with allow-tags unset, the registry holding
\* sha256:bb.. for latest: the image becomes app@sha256:bb...
C15_Witness ==
  /\ EvDigest
  /\ ev.pre.ann.allowTags = <<>>
  /\ EvContainer.image = I_app_digest
  /\ regDigest[<<N_app, S_latest>>] = Sha("b")
  /\ ev.updated
  /\ ev.post.containers[ev.ctr].image = N_app \o <<"@">> \o Sha("b")

\* The last step was the evaluation of a container of an enabled workload
\* whose container annotation names another container.
EvFilteredOut ==
  /\ ev.id # 0
  /\ ev.pre.ann.enabled = "true"
  /\ ev.pre.ann.container # ""
  /\ ev.pre.ann.container # EvContainer.name

\* C16: the container filter. When the container annotation is set and is not
\* the name of the container, the evaluation skips the container whatever the
\* mode and the registry hold: it fetches no secret, makes no registry call,
\* reports neither an update nor an error and leaves the image, last-digest
\* and the restart marker as they are.
C16_ContainerFilterSkips ==
  EvFilteredOut =>
    /\ ev.secretCalls = 0
    /\ ev.listCalls = 0
    /\ ev.digestCalls = 0
    /\ ~ev.updated
    /\ ~ev.err
    /\ ~ev.panicked
    /\ ev.post = ev.pre

\* A container the filter excludes was evaluated in a workload with pull
\* secrets, while the registry held a tag its mode would propose.
C16_Witness ==
  /\ EvFilteredOut
  /\ ev.pre.ann.mode = "name"
  /\ ev.pre.ann.container = "b"
  /\ EvContainer.name = "a"
  /\ EvContainer.image = I_app_1_2_0
  /\ ev.pre.pullSecrets = <<"s-gone", "s-hub-fields">>
  /\ T_latest \in Elems(regTags[N_app])
  /\ ev.post = ev.pre

\* The last step was an evaluation whose mode annotation is none of the
\* modes of the switch.
EvUnknownMode ==
  /\ EvConsidered
  /\ ev.pre.ann.mode \notin {"", "release", "latest", "digest", "alphabetical", "name"}

\* C17: an unknown mode is a no-op. The evaluation of a container under a
\* mode annotation the switch does not know reports neither an error nor an
\* update, calls no registry operation and changes nothing, and the pass goes
\* on with the next container of the object.
C17_UnknownModeIsNoOp ==
  EvUnknownMode =>
    /\ ~ev.err
    /\ ~ev.updated
    /\ ~ev.panicked
    /\ ev.listCalls = 0
    /\ ev.digestCalls = 0
    /\ ev.post = ev.pre
    /\ deploy = ev.pre
    /\ ~updated
    /\ pc = "container"
    /\ ctrIdx = ev.ctr + 1

\* The first container of a workload in the unknown mode weekly was
\* evaluated while the registry listed other tags for its image, and the
\* pass stands at the second container.
C17_Witness ==
  /\ EvUnknownMode
  /\ ev.pre.ann.mode = "weekly"
  /\ EvContainer.image = I_app_1_2_0
  /\ T_1_10_0 \in Elems(regTags[N_app])
  /\ ev.ctr = 1
  /\ ctrIdx = 2
  /\ Len(deploy.containers) = 2
  /\ pc = "container"

(***************************************************************************)
(* Properties of the pass                                                  *)
(***************************************************************************)

\* C19: a failure is scoped to one container. When the evaluation of a
\* container returns an error (an image that does not parse, a failing
\* listing or digest fetch, a pattern that does not compile), the object is
\* left as it was and the pass goes on with the next container; the pass is
\* not cut short after it, so the remaining containers and the later
\* workloads are evaluated; and when a sibling reported an update, the object
\* is still written back.
C19_FailureScopedToContainer ==
  /\ (ev.id # 0 /\ ev.err) =>
       /\ ~ev.updated
       /\ ev.post = ev.pre
       /\ deploy = ev.pre
       /\ pc = "container"
       /\ ctrIdx = ev.ctr + 1
  /\ (wb.id # 0 /\ wb.nErr > 0 /\ wb.nUpdated > 0) => wb.attempted
  /\ pc = "crashed" => tally.nErr = 0

\* C20: one write-back per object. The pass's copy of the object carries the
\* changes of every evaluation; when the container loop of an object ends,
\* one cluster update is issued if at least one container reported an update
\* and none otherwise, and the update carries the copy with every image
\* change, last-digest and restart marker the evaluations made; an object one
\* of whose containers reported an update does get its update.
C20_OneWriteBackPerObject ==
  /\ (ev.id # 0 /\ ~ev.panicked) => deploy = ev.post
  /\ wb.id # 0 =>
       /\ wb.attempted <=> wb.nUpdated > 0
       /\ wb.wrote => cluster[wb.id] = wb.sent
       /\ ~wb.attempted => cluster[wb.id] = wb.orig
  /\ pc = "crashed" => tally.nUpdated = 0

(***************************************************************************)
(* C29, C30: image references                                              *)
(***************************************************************************)

\* C29: for every string ParseImage accepts, exactly one of Tag and Digest
\* is non-empty (a reference by digest has the digest and no tag, every other
\* reference has a tag and no digest), and Registry and Repository are
\* non-empty.
C29_ImageInfoInvariant ==
  (imgCall.called /\ imgCall.result.ok) =>
    LET info == imgCall.result
    IN  /\ (info.Tag # <<>>) # (info.Digest # <<>>)
        /\ IF Contains(imgCall.image, "@")
           THEN info.Digest # <<>> /\ info.Tag = <<>>
           ELSE info.Tag # <<>> /\ info.Digest = <<>>
        /\ info.Registry # <<>>
        /\ info.Repository # <<>>

\* A reference that names a tag and a digest was parsed; a bare one was too.
C29_Witness ==
  /\ imgCall.called
  /\ imgCall.result.ok
  /\ imgCall.result.Digest = Sha("b")
  /\ Contains(imgCall.image, ":")

\* C30: parsing the formatted result of a successful parse gives the same
\* registry, repository, tag and digest; and an image a release, alphabetical
\* or digest evaluation proposes parses, with the registry and repository of
\* the image it replaces.
C30_FormatParseRoundTrip ==
  /\ (imgCall.called /\ imgCall.result.ok) =>
       imgCall.reparsed = imgCall.result
  /\ (ev.id # 0 /\ ev.updated /\ ~ev.err
      /\ ev.pre.ann.mode \in {"", "release", "alphabetical", "name", "digest"}) =>
       LET old == ParseImage(ev.pre.containers[ev.ctr].image)
           new == ParseImage(ev.post.containers[ev.ctr].image)
       IN  /\ new.ok
           /\ new.Registry = old.Registry
           /\ new.Repository = old.Repository

\* A reference on another registry than the default one, written without
\* its tag, went round.
C30_Witness ==
  /\ imgCall.called
  /\ imgCall.result.ok
  /\ imgCall.result.Registry = S_ghcr
  /\ imgCall.reparsed.Tag = S_latest
  /\ imgCall.formatted # imgCall.image

(***************************************************************************)
(* C26: the start of the process                                           *)
(***************************************************************************)

\* Whether a credential source loads in an environment.
Loads(env, source) ==
  CASE source = "kubeconfig" -> env.kubeConfig = "good"
    [] source = "home"       -> env.home = "good"
    [] source = "incluster"  -> env.inCluster

\* The place of a source in the order of the sources.
Rank(source) == CHOOSE i \in 1..Len(Sources) : Sources[i] = source

\* C26: with the updater enabled, main resolves the credentials in the order
\* configured path, file under $HOME, in-cluster; the first source that loads
\* is used and no later one is tried; when none loads the process ends, and
\* no pass and no API server ever starts.
C26_CredentialOrderAndFatalStart ==
  (boot.state \in {"exited", "serving"} /\ boot.env.updaterEnabled) =>
    LET loading == {i \in 1..Len(Sources) : Loads(boot.env, Sources[i])}
    IN  /\ \A i, j \in 1..Len(boot.tried) :
             i < j => Rank(boot.tried[i]) < Rank(boot.tried[j])
        /\ IF loading = {}
           THEN /\ boot.used = ""
                /\ boot.state = "exited"
                /\ ~boot.apiStarted
                /\ pc = "off"
                /\ now = 0
           ELSE /\ boot.used = Sources[CHOOSE i \in loading : \A j \in loading : i <= j]
                /\ boot.tried # <<>>
                /\ boot.tried[Len(boot.tried)] = boot.used
                /\ \A i \in 1..Len(boot.tried) - 1 : ~Loads(boot.env, boot.tried[i])

\* The configured path did not load, the file under $HOME did and was used
\* though the in-cluster configuration loads too; a pass has started.
C26_Witness ==
  /\ boot.state = "serving"
  /\ boot.env.updaterEnabled
  /\ boot.tried = <<"kubeconfig", "home">>
  /\ boot.used = "home"
  /\ boot.env.inCluster
  /\ now = 1

(***************************************************************************)
(* C27, C28: the API                                                       *)
(***************************************************************************)

\* C27: a request whose X-API-Key header differs from the configured key is
\* answered 401; the handler does not run, and no object of the cluster is
\* read or changed.
C27_WrongKeyIsRejected ==
  (req.n > 0 /\ req.key # req.apiKey) =>
    /\ req.status = 401
    /\ ~req.handled
    /\ req.gets = 0
    /\ req.updates = 0
    /\ ~req.changed
    /\ req.obj = NoObject

\* A request with a wrong key that names an object, a container and another
\* image was served, and one without the header under a configured key.
C27_Witness ==
  /\ req.n > 0
  /\ req.apiKey = "k1"
  /\ req.key \in {"", "k2"}
  /\ req.namespace = "default"
  /\ req.service = "web"
  /\ req.image = I_db_1_9_0
  /\ req.status = 401

\* The name of the container a request is about: the one it names, or the
\* first container of the object when it names none.
ReqTarget ==
  IF req.container = "" /\ req.obj.containers # <<>>
  THEN req.obj.containers[1].name ELSE req.container

\* C28: a manual update that has read its object acts on the named container,
\* or on the first one when none is named. No container of that name: an
\* error and no update. Another image: that container's image is set and one
\* update is issued. The same image under pull policy Always: the restart
\* marker is stamped and one update is issued. The same image otherwise:
\* no update, and the answer says the image is up to date. The image of no
\* other container changes.
C28_ManualUpdateOfOneContainer ==
  (req.handled /\ req.obj # NoObject) =>
    LET cs  == req.obj.containers
        hit == {i \in 1..Len(cs) : cs[i].name = ReqTarget}
    IN  /\ hit = {} =>
             /\ req.status = 500
             /\ req.result = "not found"
             /\ req.updates = 0
             /\ ~req.changed
        /\ \A i \in hit :
             /\ cs[i].image # req.image =>
                  /\ req.sent = [req.obj EXCEPT !.containers[i].image = req.image]
                  /\ req.updates = 1
                  /\ req.result \in {"updated", "update failed"}
             /\ (cs[i].image = req.image /\ cs[i].pullPolicy = "Always") =>
                  /\ req.sent = [req.obj EXCEPT !.restartedAt = req.at,
                                                !.tmplAnnNil = FALSE]
                  /\ req.updates = 1
                  /\ req.result \in {"restarted", "restart failed"}
             /\ (cs[i].image = req.image /\ cs[i].pullPolicy # "Always") =>
                  /\ req.updates = 0
                  /\ ~req.changed
                  /\ req.status = 200
                  /\ req.result = "up to date"
             /\ \A j \in 1..Len(cs) :
                  j # i => req.sent.containers[j].image = cs[j].image
        /\ (req.status = 200) = (req.result \in {"updated", "restarted", "up to date"})

\* The second container was named with another image, and the update went
\* through.
C28_Witness ==
  /\ req.handled
  /\ req.obj # NoObject
  /\ req.container = "b"
  /\ req.image = I_app_1_2_0
  /\ req.changed
  /\ req.status = 200

(***************************************************************************)
(* C21, C22, C25: the objects of a pass                                    *)
(***************************************************************************)

\* C21: a failed write-back does not stop the pass: the loop stands at the
\* next object of the listing, and a pass in which a write-back has failed
\* is not cut short before the later objects and kinds.
C21_FailedWriteBackDoesNotStopPass ==
  /\ (wb.id # 0 /\ wb.attempted /\ ~wb.wrote) =>
       /\ pc = "object"
       /\ objIdx <= Len(listed) + 1
       /\ \E i \in 1..Len(listed) : listed[i].id = wb.id /\ objIdx = i + 1
       /\ tally.wbFailed
  /\ pc = "crashed" => ~tally.wbFailed

\* C22: a pass evaluates a workload only if its enabled marker, which the
\* README places in the labels, is "true"; of every other workload nothing
\* is fetched, changed or written back.
C22_OnlyLabelledObjectsTouched ==
  /\ ev.id # 0 => ev.pre.labels.enabled = "true"
  /\ wb.id # 0 => wb.orig.labels.enabled = "true"

\* C25: with ALLOWED_NAMESPACES configured, a workload in a namespace that is
\* not in the list is never evaluated and never updated, by a pass or by a
\* request to the API.
C25_NamespaceAllowList ==
  /\ ev.id # 0 => ev.pre.namespace \in AllowedNamespaces
  /\ wb.id # 0 => wb.orig.namespace \in AllowedNamespaces
  /\ (req.handled /\ req.obj # NoObject) => req.obj.namespace \in AllowedNamespaces

(***************************************************************************)
(* C23, C24: Start                                                         *)
(***************************************************************************)

InPass == pc \in {"list", "object", "container", "crashed"}

\* C23: at every moment at most one pass is in progress; a tick that fires
\* while a pass is running stays in the ticker's channel and starts no
\* second pass beside it.
C23_PassesNeverOverlap ==
  /\ start.running \in {0, 1}
  /\ (start.running = 1) = InPass

\* Two ticks have fired during the first pass: one is buffered, one dropped.
C23_Witness ==
  /\ start.timed
  /\ pc = "container"
  /\ now = 1
  /\ start.ticks = 1
  /\ start.dropped
  /\ start.running = 1

\* Once Start has observed the signal it has returned for good: no pass is
\* in progress and none has started since.
StartReturnedForGood ==
  pc = "returned" =>
    /\ start.cancelled
    /\ start.running = 0
    /\ now = start.returnedAt

C40_NoHeaderIsRejected ==
  (req.n > 0 /\ req.key = "") =>
    /\ req.status = 401
    /\ ~req.handled
    /\ req.updates = 0

(***************************************************************************)
(* C37: stamping the restart marker                                        *)
(***************************************************************************)

\* C37: stamping the restart marker cannot crash the pass. A latest-mode
\* evaluation that fetched a digest differing from the stored last-digest
\* completes and reports update-needed, also when the pod template has no
\* annotation map, and no pass terminates the process.
C37_StampingCannotCrash ==
  /\ pc # "crashed"
  /\ (EvLatestFetched /\ ev.pre.ann.lastDigest # <<>>
        /\ ev.fetched # ev.pre.ann.lastDigest) =>
       (~ev.panicked /\ ev.updated)

(***************************************************************************)
(* C33: last-digest belongs to latest mode                                 *)
(***************************************************************************)

\* The last step was an evaluation, in a mode other than latest, that got
\* past the enabled check and the container filter.
EvOtherMode == EvConsidered /\ ev.pre.ann.mode # "latest"

\* C33: last-digest belongs to latest mode only. An evaluation in release,
\* alphabetical, name, digest or an unknown mode leaves last-digest and the
\* restart marker of the pod template as they were, and does not read
\* last-digest: with the annotation removed it reports the same outcome and
\* leaves the same containers.
C33_LastDigestIsLatestModeOnly ==
  EvOtherMode =>
    /\ ev.post.ann.lastDigest = ev.pre.ann.lastDigest
    /\ ev.post.restartedAt = ev.pre.restartedAt
    /\ ev.post.tmplAnnNil = ev.pre.tmplAnnNil
    /\ \E net \in {"ok", "fail"} :
       \E r \in {updateContainerIfNeeded([ev.pre EXCEPT !.ann.lastDigest = <<>>],
                                          ev.ctr, net, regTags, regDigest, ev.at)} :
         /\ r.updated = ev.updated
         /\ r.err = ev.err
         /\ r.w.containers = ev.post.containers
         /\ r.listCalls = ev.listCalls
         /\ r.digestCalls = ev.digestCalls

C33_Witness ==
  /\ EvOtherMode
  /\ ev.pre.ann.mode = "digest"
  /\ ev.pre.ann.lastDigest = Sha("a")
  /\ ev.updated
  /\ ev.post.containers # ev.pre.containers
  /\ ev.post.ann.lastDigest = Sha("a")

(***************************************************************************)
(* C36: release mode and downgrades                                        *)
(***************************************************************************)

\* C36: release mode never downgrades. When a release-mode evaluation
\* proposes a tag for a container whose current tag parses as a version, the
\* version of the proposed tag is not below the version of the current tag,
\* whatever tags the registry lists and whatever the allow-tags filter is.
C36_ReleaseNeverDowngrades ==
  (EvRelease /\ ev.updated /\ ~ev.err
     /\ TagVersion(ParseImage(EvContainer.image).Tag).ok) =>
    LET current  == ParseImage(EvContainer.image).Tag
        proposed == ParseImage(ev.post.containers[ev.ctr].image).Tag
    IN  /\ TagVersion(proposed).ok
        /\ VersionCompare(TagVersion(proposed), TagVersion(current)) >= 0

(***************************************************************************)
(* C38: digest and alphabetical modes converge                             *)
(***************************************************************************)

ConvergingModes == {"digest", "alphabetical", "name"}

\* The last step was a digest-mode or alphabetical-mode evaluation.
EvConverging == EvConsidered /\ ev.pre.ann.mode \in ConvergingModes

\* The last step was a write-back of a digest-mode or alphabetical-mode
\* workload that the cluster accepted.
WbConverging == wb.id # 0 /\ wb.wrote /\ wb.orig.ann.mode \in ConvergingModes

\* C38 as stated: with an unchanged registry, once the image proposed by
\* digest or alphabetical mode has been applied to a container, every later
\* evaluation of the container proposes nothing, and the workload is written
\* back at most once per registry change: no write-back follows an earlier
\* one while the registry is unchanged.
C38_OneWriteBackPerRegistryChange ==
  /\ (EvConverging /\ ev.wasApplied) => (~ev.updated /\ ev.post = ev.pre)
  /\ WbConverging => wb.applied = {}

\* C38, amended: with an unchanged registry, once the image proposed by
\* digest or alphabetical mode has been applied to a container, every later
\* evaluation of the container proposes nothing, and each container of the
\* workload has its image written back at most once per registry change: a
\* later write-back carries proposals for other containers only.
C38_OneWriteBackPerContainer ==
  /\ (EvConverging /\ ev.wasApplied) => (~ev.updated /\ ev.post = ev.pre)
  /\ WbConverging =>
       /\ wb.released \cap wb.applied = {}
       /\ \A i \in wb.applied : wb.sent.containers[i] = wb.orig.containers[i]

\* On the second pass digest mode fetched the digest for a container that
\* the first pass had moved to a digest reference, and proposed nothing.
C38_Witness ==
  /\ EvConverging
  /\ ev.wasApplied
  /\ ev.pre.ann.mode = "digest"
  /\ ev.digestCalls = 1
  /\ ~ev.err
  /\ ev.at = 2

(***************************************************************************)
(* C35: a listing failure is scoped to one kind                            *)
(***************************************************************************)

KindOrder == <<"deployment", "statefulset", "daemonset">>

\* One step of a pass that keeps to the order of the kinds: the pass starts
\* with the deployments, a listing returns the objects of the kind at hand,
\* a listing that fails and the end of a list both lead to the listing of the
\* next kind, and the pass ends, CheckAndUpdate returning to Start, only
\* after the daemonsets and never by the end of the process. A step of the
\* registry leaves the pass where it is.
ScopedListingStep ==
  \/ UNCHANGED passVars
  \/ /\ (pc = "idle" /\ pc' = "list") => kindIdx' = 1
     /\ (pc = "list" /\ pc' = "object") =>
          /\ kindIdx' = kindIdx
          /\ \A i \in 1..Len(listed') : listed'[i].obj.kind = KindOrder[kindIdx]
          /\ \A id \in WorkloadIds :
               cluster[id].kind = KindOrder[kindIdx] =>
                 \E i \in 1..Len(listed') : listed'[i].id = id
     /\ (pc \in {"list", "object"} /\ pc' = "list") => kindIdx' = kindIdx + 1
     /\ (pc \in {"list", "object"} /\ pc' = "idle") => kindIdx = Len(KindOrder)
     /\ pc = "list" => pc' \in {"list", "object", "idle"}
     /\ pc \in {"object", "container"} => pc' \in {"list", "object", "container", "idle"}

\* C35: a listing failure is scoped to one workload kind. A pass processes
\* the kinds in the order deployments, statefulsets, daemonsets; when the
\* listing of a kind fails the other kinds are still listed and processed in
\* the same pass, and CheckAndUpdate returns to Start in every case.
C35_ListingFailureScopedToKind == [][ScopedListingStep]_vars

(***************************************************************************)
(* C32: no lost update after a failed write-back                           *)
(***************************************************************************)

\* C32: no lost update after a failed write-back. When a latest-mode pass
\* detects a digest change or a first observation and the update of the
\* object fails, the stored object stays as it was; the next pass evaluates
\* the object as stored, with the last-digest it had before the failed pass,
\* and, fetching the same digests, attempts the write-back of the same
\* last-digest again.
C32_FailedWriteBackIsRedone ==
  /\ (wb.id # 0 /\ wb.attempted /\ ~wb.wrote) => cluster[wb.id] = wb.orig
  /\ (ev.id # 0 /\ ev.ctr = 1 /\ lostWb[ev.id] # NoLost) =>
       /\ ev.pre = cluster[ev.id]
       /\ ev.pre = lostWb[ev.id].orig
  /\ (wb.id # 0 /\ wb.lost # NoLost /\ wb.clean) =>
       /\ wb.attempted
       /\ wb.orig = wb.lost.orig
       /\ wb.sent.ann.lastDigest = wb.lost.sent.ann.lastDigest
       /\ wb.sent.containers = wb.lost.sent.containers
       /\ (wb.sent.restartedAt # 0) = (wb.lost.sent.restartedAt # 0)

\* The second pass sent the first observation of a workload again, the
\* write-back of the first pass having failed.
C32_Witness ==
  /\ wb.id # 0
  /\ wb.lost # NoLost
  /\ wb.clean
  /\ wb.attempted
  /\ wb.orig.ann.lastDigest = <<>>
  /\ wb.lost.sent.ann.lastDigest = Sha("b")
  /\ wb.sent.ann.lastDigest = Sha("b")
  /\ now = 2

(***************************************************************************)
(* C34: concurrent writers                                                 *)
(***************************************************************************)

\* The objects of the listing that the pass has not finished yet.
Pending ==
  IF pc \in {"object", "container"} THEN {i \in objIdx..Len(listed) : TRUE} ELSE {}

\* C34: concurrent writers. When another writer changes a workload after
\* the pass listed it and before the pass writes it back, the stored object
\* has another resource version than the pass's copy; the write-back of the
\* stale copy is rejected and leaves the stored object as the other writer
\* left it, the pass goes on to the next object without another attempt, and
\* a pass evaluates the objects as its listing found them stored.
C34_StaleWriteBackIsRejected ==
  /\ (wb.id # 0 /\ wb.stored # wb.orig) => wb.stale
  /\ (wb.id # 0 /\ wb.attempted /\ wb.stale) =>
       /\ ~wb.wrote
       /\ cluster[wb.id] = wb.stored
       /\ pc = "object"
       /\ listed[objIdx - 1].id = wb.id
  /\ \A i \in Pending :
       listed[i].rv = version[listed[i].id] => listed[i].obj = cluster[listed[i].id]
  /\ (ev.id # 0 /\ ev.ctr = 1) => ev.pre = listed[objIdx].obj

\* The pass proposed app:1.10.0 for the deployment while a manual update set
\* another image; the write-back met the conflict and the manual update
\* stayed.
C34_Witness ==
  /\ wb.id = 1
  /\ wb.attempted
  /\ wb.stale
  /\ wb.stored # wb.orig
  /\ req.changed
  /\ cluster[1] = req.sent
  /\ wb.sent.containers[1].image = FormatTagged(ParseImage(I_app_1_2_0), T_1_10_0)

(***************************************************************************)
(* C39: cancellation and a pending tick                                    *)
(***************************************************************************)

\* C39 as stated: cancellation wins over a pending tick. From the moment the
\* signal is raised Start begins no new pass: a pass in progress after the
\* signal is the pass that was in progress when the signal was raised.
C39_CancellationWinsOverTick ==
  (start.cancelled /\ InPass) => now = start.passAtSignal

\* One step of Start after the signal: a pass begins only at the select of
\* Start and with a tick in the ticker's channel, at a select with no tick
\* Start can only return, and Start does nothing after it has returned.
SelectAfterSignalStep ==
  /\ (start.cancelled /\ now' # now) =>
       /\ pc = "idle"
       /\ start.ticks > 0
       /\ pc' = "list"
       /\ start'.ticks = 0
  /\ (start.cancelled /\ pc = "idle" /\ start.ticks = 0 /\ pc' # pc) => pc' = "returned"
  /\ pc = "returned" => (pc' = "returned" /\ now' = now /\ cluster' = cluster)

\* C39, amended: from the moment the signal is raised Start begins a new
\* pass only when a tick is pending at its select and the select takes the
\* tick; at a select with no tick pending Start returns, and once it has
\* returned no pass begins.
C39_PendingTickMayStartPass == [][SelectAfterSignalStep]_vars

\* A pass that began after the signal, from a tick that was pending.
C39_Witness ==
  /\ start.cancelled
  /\ pc = "list"
  /\ kindIdx = 1
  /\ now = 2
  /\ start.passAtSignal = 1

(***************************************************************************)
(* C31: TestParseImage                                                     *)
(***************************************************************************)

\* C31: ParseImage accepts the registry-qualified references of the test,
\* with a tag (docker.io/library/nginx:latest,
\* gcr.io/my-project/my-image:v1.0.0) or with a digest
\* (registry.invalid/image@sha256:1234567890abcdef), and returns an error for
\* the bare word invalid-image-reference: on each reference of the test's
\* table it returns an error exactly when the test expects one.
C31_TestParseImage ==
  \A t \in TestImages :
    (imgCall.called /\ imgCall.image = t.image) => (imgCall.result.ok = ~t.wantErr)

====
